---- MODULE Spec2Model ----
(***************************************************************************)
(* State-machine model of parts of the component library:                  *)
(*   - MatCheckbox (src/material/checkbox/checkbox.ts),                    *)
(*   - MatAutocompleteHarness (mdc-autocomplete/testing),                  *)
(*   - MatTooltipHarness and the sidenav harnesses (sidenav/testing),      *)
(*   - HarnessPredicate and the harnesses' with(),                         *)
(*   - ProtractorElement (cdk/testing/protractor),                         *)
(*   - the fake events of the testbed (cdk/testing/testbed/fake-events),   *)
(*   - the ng-update migrations (cdk/schematics/ng-update/migrations),     *)
(*   - CdkTextareaAutosize,                                                *)
(*   - the generated ids of MatCheckbox and MatError.                      *)
(* Each part has its own specification (SpecCheckbox, SpecAutocomplete,    *)
(* SpecTooltip, SpecPredicate, SpecDrawer, SpecProtractor, SpecFakeEvents, *)
(* SpecMigration, SpecAutosize, SpecIds); the variables of the other parts *)
(* are held fixed.                                                         *)
(***************************************************************************)
EXTENDS Integers, Sequences, FiniteSets, TLC

VARIABLES
  \* ---- MatCheckbox ----
  clickAction,         \* this._options.clickAction
  checked,             \* this._checked
  indeterminate,       \* this._indeterminate
  disabled,            \* this._disabled
  currentCheckState,   \* this._currentCheckState
  viewInit,            \* whether @ViewChild('input') _inputElement is set
  nativeChecked,       \* _inputElement.nativeElement.checked
  nativeIndeterminate, \* _inputElement.nativeElement.indeterminate
  microtasks,          \* pending Promise.resolve().then(...) callbacks of clicks
  emitted,             \* events emitted by the most recent step, in order
  last,                \* the most recent step and the state it started from
  toggles,             \* observable states at the ends of consecutive user toggles
  \* ---- the document a MatAutocompleteHarness works on ----
  hostOwns,            \* the host's aria-owns attribute, or Null
  elemState,           \* per element id: absent, hidden or visible
  \* ---- one MatAutocompleteHarness and the call it is executing ----
  acOp,                \* the method called
  acFilters,           \* its `filters` argument
  acStatus,            \* idle, running, resolved or rejected
  acStep,              \* position in the method's body
  acSel,               \* the panel selector this call computed
  acFound,             \* the elements this call's locator returned
  acResult,            \* the boolean isOpen() resolves to
  acError,             \* the message of the Error the call rejected with
  acTrace,             \* what the call has done to the environment, in order
  acPrevSel,           \* the panel selector the previous call computed
  acStable,            \* no rendering happened since the call started
  \* ---- tooltips in the document and one MatTooltipHarness ----
  tipDom,              \* triggers whose .mat-tooltip element is attached, in document order
  tipHiding,           \* triggers whose tooltip is running its hide animation
  stabilizing,         \* a forceStabilize() request has not completed yet
  ttOp,                \* the method called
  ttStatus,            \* idle, running or resolved
  ttStep,              \* position in the method's body
  ttTrace,             \* what the call has done to the environment, in order
  ttPanel,             \* what this call's _optionalPanel() returned
  ttOpen,              \* the boolean isOpen() resolves to
  ttText,              \* the string getTooltipText() resolves to
  ttDomAtQuery,        \* the tooltips in the document when this call queried it
  \* ---- with() and the predicate it returns ----
  inputValue,          \* per autocomplete instance: the value property of its input
  pdType,              \* the harness type whose with() was called
  pdArg,               \* the argument of with()
  pdChecks,            \* the checks the predicate registered, in order
  pdStatus,            \* idle, built (being evaluated) or done
  pdAccepted,          \* per instance: not evaluated yet, accepted or rejected
  pdRan,               \* the match functions that were run, per instance
  pdValAtEval,         \* per instance: the input value when the predicate was evaluated
  pdValAtWith,         \* per instance: the input value when with() was called
  \* ---- one MatDrawerContainerHarness and its document ----
  drPresent,           \* the drawers and content elements now in the document
  drOp,                \* the method called on the container harness
  drFilter,            \* the filter given to getDrawers
  drOutcome,           \* idle, or how the call ended and what it found
  \* ---- one ProtractorElement and the call it is executing ----
  peOp,                \* the method called on the ProtractorElement
  peStatus,            \* idle, running, resolved or rejected
  peClass,             \* the class attribute of the element, or Null
  peOptions,           \* the number of option elements under the element
  peSelected,          \* the indices of the options now selected
  peCtrl,              \* whether the control key is held down
  peArgs,              \* the arguments of the call
  peIndex,             \* selectOptions: the loop variable i
  peStep,              \* selectOptions: the awaited step to do next
  peLog,               \* what the call has asked of the browser, in order
  peResult,            \* what the call resolved to
  peError,             \* the error the call rejected with
  \* ---- one event built by the fake-event functions ----
  evBackend,           \* the browser the events are built in
  evKind,              \* none, or the kind of the event built: mouse or keyboard
  evNative,            \* what the init function left in the event itself
  evOwn,               \* the own properties defined on the event, by name
  evCalls,             \* how often event.preventDefault() was called
  evOriginalCalls,     \* how often the original preventDefault was invoked
  \* ---- ng-update migrations ----
  mgOp,                \* the visit that ran, "none" between visits
  mgData,              \* the upgrade data of the migration
  mgContent,           \* the text visited (resource content, literal text or property name)
  mgStart,             \* where the text starts in its file
  mgParent,            \* the kind of the parent of the visited literal
  mgType,              \* the name of the host type of the property access
  mgEdits,             \* the edits recorded on the file, in order
  \* ---- CdkTextareaAutosize ----
  asBrowser,           \* _platform.isBrowser
  asRendered,          \* the textarea is laid out
  asOriginalHeight,    \* style.height before the directive touched it
  asHeight,            \* style.height
  asMinHeight,         \* style.minHeight
  asValue,             \* textarea.value
  asEnabled,           \* _enabled
  asMinRows,           \* _minRows
  asPrevValue,         \* _previousValue
  asPrevMinRows,       \* _previousMinRows
  asInitialHeight,     \* _initialHeight
  asLineHeight,        \* _cachedLineHeight, 0 while unknown
  asViewInit,          \* ngAfterViewInit has run
  asDestroyed,         \* _destroyed.isStopped
  asSubscribed,        \* the subscription to window resize is alive
  asAuditPending,      \* the auditTime(16) timer is running
  asFocused,           \* document.activeElement is the textarea
  asCallbacks,         \* scheduled _scrollToCaretPosition callbacks
  asDid,               \* what the last step did
  \* ---- auto-generated ids ----
  idNextCheckbox,      \* nextUniqueId of checkbox.ts
  idNextError,         \* nextUniqueId of error.ts
  idCheckboxes,        \* the checkboxes created, in creation order (_uniqueId, id)
  idErrors             \* the errors created, in creation order (generated id, id)

cbVars == <<clickAction, checked, indeterminate, disabled, currentCheckState,
            viewInit, nativeChecked, nativeIndeterminate, microtasks, emitted,
            last, toggles>>

docVars == <<hostOwns, elemState>>

acVars == <<acOp, acFilters, acStatus, acStep, acSel, acFound, acResult,
            acError, acTrace, acPrevSel, acStable>>

ttVars == <<tipDom, tipHiding, stabilizing, ttOp, ttStatus, ttStep, ttTrace,
            ttPanel, ttOpen, ttText, ttDomAtQuery>>

pdVars == <<inputValue, pdType, pdArg, pdChecks, pdStatus, pdAccepted, pdRan,
            pdValAtEval, pdValAtWith>>

drVars == <<drPresent, drOp, drFilter, drOutcome>>

peVars == <<peOp, peStatus, peClass, peOptions, peSelected, peCtrl, peArgs,
            peIndex, peStep, peLog, peResult, peError>>

evVars == <<evBackend, evKind, evNative, evOwn, evCalls, evOriginalCalls>>

mgVars == <<mgOp, mgData, mgContent, mgStart, mgParent, mgType, mgEdits>>

asVars == <<asBrowser, asRendered, asOriginalHeight, asHeight, asMinHeight,
            asValue, asEnabled, asMinRows, asPrevValue, asPrevMinRows,
            asInitialHeight, asLineHeight, asViewInit, asDestroyed,
            asSubscribed, asAuditPending, asFocused, asCallbacks, asDid>>

idVars == <<idNextCheckbox, idNextError, idCheckboxes, idErrors>>

vars == <<cbVars, docVars, acVars, ttVars, pdVars, drVars, peVars, evVars,
  mgVars, asVars, idVars>>

\* What the steps of one part leave alone: the variables of the other parts.
OtherThanCheckbox == <<docVars, acVars, ttVars, pdVars, drVars, peVars,
  evVars, mgVars, asVars, idVars>>

OtherThanAutocomplete == <<cbVars, ttVars, pdVars, drVars, peVars, evVars,
  mgVars, asVars, idVars>>

OtherThanTooltip == <<cbVars, docVars, acVars, pdVars, drVars, peVars,
  evVars, mgVars, asVars, idVars>>

OtherThanPredicate == <<cbVars, docVars, acVars, ttVars, drVars, peVars,
  evVars, mgVars, asVars, idVars>>

OtherThanDrawer == <<cbVars, docVars, acVars, ttVars, pdVars, peVars, evVars,
  mgVars, asVars, idVars>>

OtherThanProtractor == <<cbVars, docVars, acVars, ttVars, pdVars, drVars,
  evVars, mgVars, asVars, idVars>>

OtherThanFakeEvents == <<cbVars, docVars, acVars, ttVars, pdVars, drVars,
  peVars, mgVars, asVars, idVars>>

OtherThanMigration == <<cbVars, docVars, acVars, ttVars, pdVars, drVars,
  peVars, evVars, asVars, idVars>>

OtherThanAutosize == <<cbVars, docVars, acVars, ttVars, pdVars, drVars,
  peVars, evVars, mgVars, idVars>>

OtherThanIds == <<cbVars, docVars, acVars, ttVars, pdVars, drVars, peVars,
  evVars, mgVars, asVars>>

(***************************************************************************)
(* Bounds.                                                                 *)
(***************************************************************************)
MaxMicrotasks == 2

\* The longest class attribute and the longest class name asked for.
MaxClassLen == 3

MaxNameLen == 1

\* The most options a select element holds and the longest argument list of
\* selectOptions.
MaxOptions == 2

MaxIndexArgs == 2

\* The most string and TestKey arguments of one sendKeys call.
MaxKeyArgs == 2

\* The most calls of preventDefault() on one event.
MaxPreventCalls == 2

\* The most entries of the upgrade data and the longest text visited.
MaxUpgradeData == 2

MaxContentLen == 3

\* The most _scrollToCaretPosition callbacks waiting for their frame.
MaxFrames == 1

\* The most checkboxes and the most errors created.
MaxInstances == 3

(***************************************************************************)
(* JavaScript values an input binding can hand to a setter.  They are      *)
(* tagged strings: "b:" a boolean, "s:" a string, "null" the null value.   *)
(***************************************************************************)
JsValues == {"b:true", "b:false", "s:", "s:true", "s:false", "null"}

JsBool(b) == IF b THEN "b:true" ELSE "b:false"

\* coerceBooleanProperty(value): value != null && `${value}` !== 'false'.
CoerceBooleanProperty(value) == value \notin {"null", "b:false", "s:false"}

\* !!value
ToBoolean(value) == value \in {"b:true", "s:true", "s:false"}

\* JavaScript's loose `value != b` for a boolean b: b becomes a number, a
\* string is converted with ToNumber ('' is 0, 'true' and 'false' are NaN),
\* and null is loosely equal to nothing but null and undefined.
LooseNotEqual(value, b) ==
  CASE value = "b:true" -> ~b
    [] value = "b:false" -> b
    [] value = "s:" -> b
    [] OTHER -> TRUE

ClickActions == {"noop", "check", "check-indeterminate", "undefined"}

\* The events of the outputs: "cva" is _controlValueAccessorChangeFn, "change"
\* and "indeterminateChange" the two EventEmitters.  `ind` is what a listener
\* reads from event.source.indeterminate while the event is delivered.
Event(type, value, ind) == [type |-> type, value |-> value, ind |-> ind]

Obs(c, i) == [checked |-> c, indeterminate |-> i]

\* _transitionCheckState(newState): the state after the call.
TransitionCheckState(oldState, newState) ==
  IF oldState = newState THEN oldState ELSE newState

CheckStateOf(c) == IF c THEN "Checked" ELSE "Unchecked"

\* _emitChangeEvent(): the callback of the ControlValueAccessor, then `change`.
EmitChangeEvent(c, i) ==
  <<Event("cva", c, i), Event("change", c, i)>>

\* Variant of toggle() that always checks: this.checked = true
ToggleStuck(c) == TRUE

\* toggle(): this.checked = !this.checked

ToggleValue(c) == ~c

\* The `checked` setter: assigns when value != this.checked.
CheckedAfterSet(c, value) == IF value # c THEN value ELSE c

\* Variant of the `checked` setter that emits `change` when it assigns.
CheckedSetterEmitsChange(c, value, i) ==
  IF value # c THEN EmitChangeEvent(value, i) ELSE <<>>

\* What the `checked` setter emits: nothing.
CheckedSetterEmits(c, value, i) == <<>>

\* Variant that schedules the reset for the click action 'check' as well.
ClickSchedulesResetForCheck(dis, action, ind) ==
  ~dis /\ action # "noop" /\ ind

\* Whether a click's deferred reset of `indeterminate` is scheduled.
ClickSchedulesReset(dis, action, ind) ==
  ~dis /\ action # "noop" /\ ind /\ action # "check"

\* Variant that toggles only for the two named click actions, not when the
\* options leave clickAction undefined.
ClickTogglesConfiguredOnly(dis, action) ==
  ~dis /\ action \in {"check", "check-indeterminate"}

\* Whether a click toggles the checkbox.

ClickToggles(dis, action) == ~dis /\ action # "noop"

\* Variant that never writes the native input.
ClickResetsNativeNever(dis, action) == FALSE

\* Whether a click sets the native input's checked and indeterminate back
\* to the component's: the `else if (!this.disabled && clickAction === 'noop')`.
ClickResetsNative(dis, action) ==
  ~ClickToggles(dis, action) /\ ~dis /\ action = "noop"

Step(op) ==
  [op |-> op, checked |-> checked, indeterminate |-> indeterminate,
   disabled |-> disabled, microtasks |-> microtasks, stopped |-> FALSE]

KeepLast3(s) == IF Len(s) > 3 THEN Tail(s) ELSE s

(***************************************************************************)
(* MatCheckbox: the state after construction.                              *)
(***************************************************************************)
CheckboxInit ==
  /\ clickAction \in ClickActions
  /\ checked = FALSE
  /\ indeterminate = FALSE
  /\ disabled = FALSE
  /\ currentCheckState = "Init"
  /\ viewInit = FALSE
  /\ nativeChecked = FALSE
  /\ nativeIndeterminate = FALSE
  /\ microtasks = 0
  /\ emitted = <<>>
  /\ last = [op |-> "init", checked |-> FALSE, indeterminate |-> FALSE,
             disabled |-> FALSE, microtasks |-> 0, stopped |-> FALSE]
  /\ toggles = <<>>

\* ngAfterViewInit(): this._syncIndeterminate(this._indeterminate).
NgAfterViewInit ==
  /\ ~viewInit
  /\ viewInit' = TRUE
  /\ nativeIndeterminate' = indeterminate
  /\ emitted' = <<>>
  /\ last' = Step("ngAfterViewInit")
  /\ toggles' = <<>>
  /\ UNCHANGED <<clickAction, checked, indeterminate, disabled,
                 currentCheckState, nativeChecked, microtasks>>

\* set checked(value: boolean)
SetChecked ==
  \E value \in BOOLEAN :
    /\ checked' = CheckedAfterSet(checked, value)
    /\ emitted' = CheckedSetterEmits(checked, value, indeterminate)
    /\ last' = Step("setChecked")
    /\ toggles' = <<>>
    /\ UNCHANGED <<clickAction, indeterminate, disabled, currentCheckState,
                   viewInit, nativeChecked, nativeIndeterminate, microtasks>>

\* writeValue(value): this.checked = !!value
WriteValue ==
  \E value \in JsValues :
    /\ checked' = CheckedAfterSet(checked, ToBoolean(value))
    /\ emitted' = CheckedSetterEmits(checked, ToBoolean(value), indeterminate)
    /\ last' = Step("writeValue")
    /\ toggles' = <<>>
    /\ UNCHANGED <<clickAction, indeterminate, disabled, currentCheckState,
                   viewInit, nativeChecked, nativeIndeterminate, microtasks>>

\* toggle(), called by the application
Toggle ==
  /\ checked' = CheckedAfterSet(checked, ToggleValue(checked))
  /\ emitted' = CheckedSetterEmits(checked, ToggleValue(checked), indeterminate)
  /\ last' = Step("toggle")
  /\ toggles' = <<>>
  /\ UNCHANGED <<clickAction, indeterminate, disabled, currentCheckState,
                 viewInit, nativeChecked, nativeIndeterminate, microtasks>>

\* set disabled(value: any)
SetDisabled ==
  \E value \in JsValues :
    /\ disabled' = CoerceBooleanProperty(value)
    /\ emitted' = <<>>
    /\ last' = Step("setDisabled")
    /\ toggles' = <<>>
    /\ UNCHANGED <<clickAction, checked, indeterminate, currentCheckState,
                   viewInit, nativeChecked, nativeIndeterminate, microtasks>>

\* setDisabledState(isDisabled: boolean): this.disabled = isDisabled
SetDisabledState ==
  \E isDisabled \in BOOLEAN :
    /\ disabled' = CoerceBooleanProperty(JsBool(isDisabled))
    /\ emitted' = <<>>
    /\ last' = Step("setDisabledState")
    /\ toggles' = <<>>
    /\ UNCHANGED <<clickAction, checked, indeterminate, currentCheckState,
                   viewInit, nativeChecked, nativeIndeterminate, microtasks>>

\* set indeterminate(value: boolean), whose accepted input type is BooleanInput
SetIndeterminate ==
  \E value \in JsValues :
    LET changed == LooseNotEqual(value, indeterminate)
        newInd == CoerceBooleanProperty(value)
    IN /\ indeterminate' = newInd
       /\ currentCheckState' =
            IF changed
              THEN TransitionCheckState(currentCheckState,
                     IF newInd THEN "Indeterminate" ELSE CheckStateOf(checked))
              ELSE currentCheckState
       /\ emitted' = IF changed
                       THEN <<Event("indeterminateChange", newInd, newInd)>>
                       ELSE <<>>
       /\ nativeIndeterminate' = IF viewInit THEN newInd ELSE nativeIndeterminate
       /\ last' = Step("setIndeterminate")
       /\ toggles' = <<>>
       /\ UNCHANGED <<clickAction, checked, disabled, viewInit, nativeChecked,
                      microtasks>>

\* _onInputClick(event).  nc and ni are the native input's checked and
\* indeterminate properties as the browser left them before the handler runs.
OnInputClick ==
  \E nc \in BOOLEAN, ni \in BOOLEAN :
    LET doToggle == ClickToggles(disabled, clickAction)
        schedule == ClickSchedulesReset(disabled, clickAction, indeterminate)
        newChecked == IF doToggle
                        THEN CheckedAfterSet(checked, ToggleValue(checked))
                        ELSE checked
        newMicro == IF schedule THEN microtasks + 1 ELSE microtasks
        base == IF toggles = <<>> THEN <<Obs(checked, indeterminate)>> ELSE toggles
    IN /\ viewInit
       /\ newMicro <= MaxMicrotasks
       /\ checked' = newChecked
       /\ microtasks' = newMicro
       /\ currentCheckState' =
            IF doToggle
              THEN TransitionCheckState(currentCheckState, CheckStateOf(newChecked))
              ELSE currentCheckState
       /\ emitted' = IF doToggle
                       THEN CheckedSetterEmits(checked, ToggleValue(checked), indeterminate)
                              \o EmitChangeEvent(newChecked, indeterminate)
                       ELSE <<>>
       /\ nativeChecked' =
            IF ClickResetsNative(disabled, clickAction) THEN checked ELSE nc
       /\ nativeIndeterminate' =
            IF ClickResetsNative(disabled, clickAction) THEN indeterminate ELSE ni
       /\ last' = [Step("click") EXCEPT !.stopped = TRUE]
       /\ toggles' = IF microtasks # 0 THEN <<>>
                     ELSE IF newMicro = 0
                       THEN KeepLast3(Append(base, Obs(newChecked, indeterminate)))
                       ELSE base
       /\ UNCHANGED <<clickAction, indeterminate, disabled, viewInit>>

\* The callback a click passed to Promise.resolve().then:
\*   this._indeterminate = false; this.indeterminateChange.emit(false)
RunMicrotask ==
  /\ microtasks > 0
  /\ microtasks' = microtasks - 1
  /\ indeterminate' = FALSE
  /\ emitted' = <<Event("indeterminateChange", FALSE, FALSE)>>
  /\ last' = Step("microtask")
  /\ toggles' = IF toggles # <<>> /\ microtasks = 1
                  THEN KeepLast3(Append(toggles, Obs(checked, FALSE)))
                  ELSE <<>>
  /\ UNCHANGED <<clickAction, checked, disabled, currentCheckState, viewInit,
                 nativeChecked, nativeIndeterminate>>


\* A checkbox that takes no step: its state after construction with the
\* default options.
CheckboxIdle == CheckboxInit /\ clickAction = "check-indeterminate"

(***************************************************************************)
(* The document of the autocomplete: elements that carry an id, in         *)
(* document order, the options and option groups below them, and the       *)
(* trigger (the harness's host) with its aria-owns attribute.              *)
(***************************************************************************)
Null == "<null>"
Undefined == "<undefined>"

ElementIds == <<"p1", "p2", "null">>

ElementIdSet == {ElementIds[k] : k \in DOMAIN ElementIds}

OwnsValues == {Null, "p1", "p2"}

ElementStates == {"absent", "hidden", "visible"}

OptionElements ==
  << [id |-> "o1", parent |-> "p1", text |-> "Apple", tag |-> "option"],
     [id |-> "g1", parent |-> "p1", text |-> "Fruit", tag |-> "optgroup"],
     [id |-> "o2", parent |-> "p1", text |-> "Apricot", tag |-> "option"],
     [id |-> "o3", parent |-> "p2", text |-> "Apricot", tag |-> "option"],
     [id |-> "g2", parent |-> "p2", text |-> "Apple", tag |-> "optgroup"],
     [id |-> "o4", parent |-> "p2", text |-> "Apple", tag |-> "option"],
     [id |-> "o5", parent |-> "null", text |-> "Apple", tag |-> "option"] >>

\* Text filters: undefined, a literal string, or a RegExp given by its source.
TextFilter(kind, src) == [kind |-> kind, src |-> src]

TextFilters ==
  { TextFilter("undefined", ""), TextFilter("string", "Apple"),
    TextFilter("string", "Kiwi"), TextFilter("regexp", "^Ap"),
    TextFilter("regexp", "iw") }

Filters(text, ancestor) == [text |-> text, ancestor |-> ancestor]

NoFilters == Filters(TextFilter("undefined", ""), Undefined)

\* OptionHarnessFilters without 'ancestor' (getOptions, getOptionGroups).
FiltersWithoutAncestor == {Filters(t, Undefined) : t \in TextFilters}

\* OptionHarnessFilters (selectOption): 'ancestor' may be given.
OptionHarnessFilters ==
  FiltersWithoutAncestor \cup {Filters(TextFilter("undefined", ""), "#null")}

\* `${value}` of an attribute value: null becomes the text "null".
TemplateString(value) == IF value = Null THEN "null" ELSE value

\* _getPanelSelector(): `#${await host.getAttribute('aria-owns')}`
GetPanelSelector(owns) == "#" \o TemplateString(owns)

\* Variant that keeps the selector an earlier call computed.
PanelSelectorCached(owns, cached) ==
  IF cached # Undefined THEN cached ELSE GetPanelSelector(owns)

\* The selector a call uses: computed from the attribute it has just read;
\* the harness keeps no selector of an earlier call.

PanelSelectorForCall(owns, cached) == GetPanelSelector(owns)

\* {...filters, ancestor: await this._getPanelSelector()}
WithPanelAncestor(filters, sel) == [filters EXCEPT !.ancestor = sel]

\* JSON.stringify of a filters object: undefined properties are left out, a
\* string is quoted, and a RegExp, which has no enumerable property, is {}.
JsonOfText(t) ==
  IF t.kind = "string" THEN "\"" \o t.src \o "\"" ELSE "{}"

JsonStringify(filters) ==
  LET text == IF filters.text.kind = "undefined" THEN <<>>
              ELSE <<"\"text\":" \o JsonOfText(filters.text)>>
      anc == IF filters.ancestor = Undefined THEN <<>>
             ELSE <<"\"ancestor\":\"" \o filters.ancestor \o "\"">>
      props == text \o anc
  IN CASE Len(props) = 0 -> "{}"
       [] Len(props) = 1 -> "{" \o props[1] \o "}"
       [] OTHER -> "{" \o props[1] \o "," \o props[2] \o "}"

\* Error(`Could not find a mat-option matching ${JSON.stringify(filters)}`)
NotFoundMessage(filters) ==
  "Could not find a mat-option matching " \o JsonStringify(filters)

\* RegExp.prototype.test for a pattern of literal characters with an
\* optional leading ^.
RegExpTest(src, s) ==
  IF Len(src) > 0 /\ SubSeq(src, 1, 1) = "^"
    THEN LET lit == SubSeq(src, 2, Len(src))
         IN Len(lit) <= Len(s) /\ SubSeq(s, 1, Len(lit)) = lit
    ELSE \E k \in 1..(Len(s) - Len(src) + 1) : SubSeq(s, k, k + Len(src) - 1) = src

\* HarnessPredicate.stringMatches: exact equality for a string, test for a
\* RegExp; an option whose value is undefined is skipped by addOption.
StringMatches(s, t) ==
  CASE t.kind = "undefined" -> TRUE
    [] t.kind = "string" -> s = t.src
    [] OTHER -> RegExpTest(t.src, s)

\* Whether the element with this id is in the document and matches `#id`.
MatchesIdSelector(sel, id) == elemState[id] # "absent" /\ sel = "#" \o id

\* documentRootLocator.locatorForOptional(selector)(): the first match in
\* document order, or nothing.
LocatorForOptional(sel) ==
  LET hits == SelectSeq(ElementIds, LAMBDA id : MatchesIdSelector(sel, id))
  IN IF hits = <<>> THEN <<>> ELSE <<hits[1]>>

\* documentRootLocator.locatorForAll(Harness.with(filters))(): every element
\* of the harness's type below an element matching filters.ancestor whose
\* text matches filters.text, in document order.
LocatorForAll(tag, filters) ==
  LET hits == SelectSeq(OptionElements, LAMBDA o :
                /\ o.tag = tag
                /\ MatchesIdSelector(filters.ancestor, o.parent)
                /\ StringMatches(o.text, filters.text))
  IN [k \in DOMAIN hits |-> hits[k].id]

\* TestElement.hasClass('mat-mdc-autocomplete-visible') on a located element.
HasVisibleClass(id) == elemState[id] = "visible"

\* The body of each method, as the sequence of its awaited steps.
IsOpenSteps == <<"getPanelSelector", "locatorForOptional", "hasClass", "return">>

GetOptionsSteps == <<"getPanelSelector", "locatorForAllOptions", "return">>

GetOptionGroupsSteps == <<"getPanelSelector", "locatorForAllGroups", "return">>

\* Variant of selectOption that focuses the input after the click.
SelectOptionStepsClickFirst ==
  <<"getPanelSelector", "locatorForAllOptions", "throwIfEmpty", "clickFirst",
    "focus", "return">>

SelectOptionSteps ==
  <<"focus", "getPanelSelector", "locatorForAllOptions", "throwIfEmpty",
    "clickFirst", "return">>

AcOps == {"isOpen", "getOptions", "getOptionGroups", "selectOption"}

StepsOf(op) ==
  CASE op = "isOpen" -> IsOpenSteps
    [] op = "getOptions" -> GetOptionsSteps
    [] op = "getOptionGroups" -> GetOptionGroupsSteps
    [] op = "selectOption" -> SelectOptionSteps
    [] OTHER -> <<>>

FiltersOf(op) ==
  CASE op = "isOpen" -> {NoFilters}
    [] op = "selectOption" -> OptionHarnessFilters
    [] OTHER -> FiltersWithoutAncestor

CurStep == IF acStatus = "running" THEN StepsOf(acOp)[acStep] ELSE "none"

\* options[0]
FirstOption(options) == options[1]

Did(op, arg) == [op |-> op, arg |-> arg]

AutocompleteIdle ==
  /\ hostOwns = Null
  /\ elemState = [id \in ElementIdSet |-> "absent"]
  /\ acOp = "none"
  /\ acFilters = NoFilters
  /\ acStatus = "idle"
  /\ acStep = 1
  /\ acSel = Undefined
  /\ acFound = <<>>
  /\ acResult = FALSE
  /\ acError = ""
  /\ acTrace = <<>>
  /\ acPrevSel = Undefined
  /\ acStable = TRUE

\* Any rendered document: the trigger may or may not reference a panel.
AutocompleteInit ==
  /\ hostOwns \in OwnsValues
  /\ elemState \in [ElementIdSet -> ElementStates]
  /\ acOp = "none"
  /\ acFilters = NoFilters
  /\ acStatus = "idle"
  /\ acStep = 1
  /\ acSel = Undefined
  /\ acFound = <<>>
  /\ acResult = FALSE
  /\ acError = ""
  /\ acTrace = <<>>
  /\ acPrevSel = Undefined
  /\ acStable = TRUE

\* Rendering: the trigger's aria-owns attribute changes (the panel opens or
\* closes, or its id changes).
SetAriaOwns ==
  \E v \in OwnsValues :
    /\ v # hostOwns
    /\ hostOwns' = v
    /\ acStable' = (acStable /\ acStatus # "running")
    /\ UNCHANGED <<elemState, acOp, acFilters, acStatus, acStep, acSel,
                   acFound, acResult, acError, acTrace, acPrevSel>>

\* Rendering: an element is attached, detached, shown or hidden.
RenderElement ==
  \E id \in ElementIdSet, st \in ElementStates :
    /\ st # elemState[id]
    /\ elemState' = [elemState EXCEPT ![id] = st]
    /\ acStable' = (acStable /\ acStatus # "running")
    /\ UNCHANGED <<hostOwns, acOp, acFilters, acStatus, acStep, acSel,
                   acFound, acResult, acError, acTrace, acPrevSel>>

\* The test calls a method of the harness.
AcCall ==
  \E op \in AcOps :
    \E f \in FiltersOf(op) :
      /\ acStatus # "running"
      /\ acOp' = op
      /\ acFilters' = f
      /\ acStatus' = "running"
      /\ acStep' = 1
      /\ acPrevSel' = IF acSel # Undefined THEN acSel ELSE acPrevSel
      /\ acSel' = Undefined
      /\ acFound' = <<>>
      /\ acResult' = FALSE
      /\ acError' = ""
      /\ acTrace' = <<>>
      /\ acStable' = TRUE
      /\ UNCHANGED docVars

\* await this.focus()
AcFocus ==
  /\ CurStep = "focus"
  /\ acTrace' = Append(acTrace, Did("focus", "host"))
  /\ acStep' = acStep + 1
  /\ UNCHANGED <<docVars, acOp, acFilters, acStatus, acSel, acFound, acResult,
                 acError, acPrevSel, acStable>>

\* await this._getPanelSelector()
AcGetPanelSelector ==
  /\ CurStep = "getPanelSelector"
  /\ acSel' = PanelSelectorForCall(hostOwns, acPrevSel)
  /\ acTrace' = Append(acTrace, Did("getAttribute", hostOwns))
  /\ acStep' = acStep + 1
  /\ UNCHANGED <<docVars, acOp, acFilters, acStatus, acFound, acResult,
                 acError, acPrevSel, acStable>>

\* this._documentRootLocator.locatorForOptional(selector)()
AcLocatorForOptional ==
  /\ CurStep = "locatorForOptional"
  /\ acFound' = LocatorForOptional(acSel)
  /\ acTrace' = Append(acTrace, Did("locator", acSel))
  /\ acStep' = acStep + 1
  /\ UNCHANGED <<docVars, acOp, acFilters, acStatus, acSel, acResult,
                 acError, acPrevSel, acStable>>

\* !!panel && await panel.hasClass('mat-mdc-autocomplete-visible')
AcHasClass ==
  /\ CurStep = "hasClass"
  /\ acResult' = (acFound # <<>> /\ HasVisibleClass(acFound[1]))
  /\ acTrace' = IF acFound # <<>>
                  THEN Append(acTrace, Did("hasClass", acFound[1]))
                  ELSE acTrace
  /\ acStep' = acStep + 1
  /\ UNCHANGED <<docVars, acOp, acFilters, acStatus, acSel, acFound,
                 acError, acPrevSel, acStable>>

\* this._documentRootLocator.locatorForAll(XHarness.with({...filters, ancestor}))()
AcLocatorForAll ==
  /\ CurStep \in {"locatorForAllOptions", "locatorForAllGroups"}
  /\ LET merged == WithPanelAncestor(acFilters, acSel)
         tag == IF CurStep = "locatorForAllOptions" THEN "option" ELSE "optgroup"
     IN /\ acFound' = LocatorForAll(tag, merged)
        /\ acTrace' = Append(acTrace, Did("locator", merged.ancestor))
  /\ acStep' = acStep + 1
  /\ UNCHANGED <<docVars, acOp, acFilters, acStatus, acSel, acResult,
                 acError, acPrevSel, acStable>>

\* if (!options.length) throw Error(...)
AcThrowIfEmpty ==
  /\ CurStep = "throwIfEmpty"
  /\ IF acFound = <<>>
       THEN /\ acStatus' = "rejected"
            /\ acError' = NotFoundMessage(acFilters)
            /\ acStep' = acStep
       ELSE /\ acStep' = acStep + 1
            /\ UNCHANGED <<acStatus, acError>>
  /\ UNCHANGED <<docVars, acOp, acFilters, acSel, acFound, acResult,
                 acTrace, acPrevSel, acStable>>

\* await options[0].click()
AcClickFirst ==
  /\ CurStep = "clickFirst"
  /\ acTrace' = Append(acTrace, Did("click", FirstOption(acFound)))
  /\ acStep' = acStep + 1
  /\ UNCHANGED <<docVars, acOp, acFilters, acStatus, acSel, acFound, acResult,
                 acError, acPrevSel, acStable>>

\* The method's promise resolves.
AcReturn ==
  /\ CurStep = "return"
  /\ acStatus' = "resolved"
  /\ UNCHANGED <<docVars, acOp, acFilters, acStep, acSel, acFound, acResult,
                 acError, acTrace, acPrevSel, acStable>>

(***************************************************************************)
(* Tooltips: every trigger has a tooltip, whose .mat-tooltip element is in *)
(* the document while it is shown and while its hide animation runs.       *)
(***************************************************************************)
Triggers == {"t1", "t2"}

\* The trigger the harness is bound to (its host).
HostTrigger == "t1"

TipMessage(t) == IF t = "t1" THEN "one" ELSE "two"

InDom(t) == \E k \in DOMAIN tipDom : tipDom[k] = t

WithoutTips(dom, gone) == SelectSeq(dom, LAMBDA t : t \notin gone)

\* The pointer enters a trigger: its tooltip is shown.
TipsAfterEnter(t) == IF InDom(t) THEN tipDom ELSE Append(tipDom, t)

\* The pointer leaves a trigger: a shown tooltip starts to hide.
HidingAfterLeave(t) == IF InDom(t) THEN tipHiding \cup {t} ELSE tipHiding

\* _optionalPanel = documentRootLocatorFactory().locatorForOptional('.mat-tooltip'):
\* the first .mat-tooltip element of the document, or nothing.
OptionalPanel(dom) == IF dom = <<>> THEN <<>> ELSE <<dom[1]>>

\* The body of each method, as the sequence of its awaited steps.
ShowSteps == <<"hover", "return">>

\* Variant of hide() that does not await forceStabilize().
HideStepsNoAwait == <<"mouseAway", "forceStabilize", "return">>

HideSteps == <<"mouseAway", "forceStabilize", "awaitStabilize", "return">>

TooltipIsOpenSteps == <<"optionalPanel", "return">>

GetTooltipTextSteps == <<"optionalPanel", "text", "return">>

TtOps == {"show", "hide", "isOpen", "getTooltipText"}

TtStepsOf(op) ==
  CASE op = "show" -> ShowSteps
    [] op = "hide" -> HideSteps
    [] op = "isOpen" -> TooltipIsOpenSteps
    [] op = "getTooltipText" -> GetTooltipTextSteps
    [] OTHER -> <<>>

TtCurStep == IF ttStatus = "running" THEN TtStepsOf(ttOp)[ttStep] ELSE "none"

TooltipInit ==
  /\ tipDom = <<>>
  /\ tipHiding = {}
  /\ stabilizing = FALSE
  /\ ttOp = "none"
  /\ ttStatus = "idle"
  /\ ttStep = 1
  /\ ttTrace = <<>>
  /\ ttPanel = <<>>
  /\ ttOpen = FALSE
  /\ ttText = ""
  /\ ttDomAtQuery = <<>>

\* Between two calls of the test, the user moves the pointer onto a trigger.
UserEnter ==
  \E t \in Triggers :
    /\ ttStatus = "idle"
    /\ ~InDom(t) \/ t \in tipHiding
    /\ tipDom' = TipsAfterEnter(t)
    /\ tipHiding' = tipHiding \ {t}
    /\ UNCHANGED <<stabilizing, ttOp, ttStatus, ttStep, ttTrace, ttPanel,
                   ttOpen, ttText, ttDomAtQuery>>

\* Between two calls of the test, the user moves the pointer off a trigger.
UserLeave ==
  \E t \in Triggers :
    /\ ttStatus = "idle"
    /\ InDom(t) /\ t \notin tipHiding
    /\ tipHiding' = HidingAfterLeave(t)
    /\ UNCHANGED <<tipDom, stabilizing, ttOp, ttStatus, ttStep, ttTrace,
                   ttPanel, ttOpen, ttText, ttDomAtQuery>>

\* A hide animation ends: the tooltip's element leaves the document.
HideAnimationDone ==
  \E t \in tipHiding :
    /\ tipDom' = WithoutTips(tipDom, {t})
    /\ tipHiding' = tipHiding \ {t}
    /\ UNCHANGED <<stabilizing, ttOp, ttStatus, ttStep, ttTrace, ttPanel,
                   ttOpen, ttText, ttDomAtQuery>>

\* A forceStabilize() request completes: all pending work has been flushed.
StabilizeDone ==
  /\ stabilizing
  /\ stabilizing' = FALSE
  /\ tipDom' = WithoutTips(tipDom, tipHiding)
  /\ tipHiding' = {}
  /\ UNCHANGED <<ttOp, ttStatus, ttStep, ttTrace, ttPanel, ttOpen, ttText, ttDomAtQuery>>

\* The test calls a method of the harness.
TtCall ==
  \E op \in TtOps :
    /\ ttStatus = "idle"
    /\ ttOp' = op
    /\ ttStatus' = "running"
    /\ ttStep' = 1
    /\ ttTrace' = <<>>
    /\ ttPanel' = <<>>
    /\ ttOpen' = FALSE
    /\ ttText' = ""
    /\ ttDomAtQuery' = <<>>
    /\ UNCHANGED <<tipDom, tipHiding, stabilizing>>

\* show(): (await this.host()).hover()
TtHover ==
  /\ TtCurStep = "hover"
  /\ tipDom' = TipsAfterEnter(HostTrigger)
  /\ tipHiding' = tipHiding \ {HostTrigger}
  /\ ttTrace' = Append(ttTrace, "hover")
  /\ ttStep' = ttStep + 1
  /\ UNCHANGED <<stabilizing, ttOp, ttStatus, ttPanel, ttOpen, ttText, ttDomAtQuery>>

\* hide(): await host.mouseAway()
TtMouseAway ==
  /\ TtCurStep = "mouseAway"
  /\ tipHiding' = HidingAfterLeave(HostTrigger)
  /\ ttTrace' = Append(ttTrace, "mouseAway")
  /\ ttStep' = ttStep + 1
  /\ UNCHANGED <<tipDom, stabilizing, ttOp, ttStatus, ttPanel, ttOpen, ttText, ttDomAtQuery>>

\* hide(): this.forceStabilize() is called
TtForceStabilize ==
  /\ TtCurStep = "forceStabilize"
  /\ stabilizing' = TRUE
  /\ ttTrace' = Append(ttTrace, "forceStabilize")
  /\ ttStep' = ttStep + 1
  /\ UNCHANGED <<tipDom, tipHiding, ttOp, ttStatus, ttPanel, ttOpen, ttText, ttDomAtQuery>>

\* hide(): the await of forceStabilize()'s promise
TtAwaitStabilize ==
  /\ TtCurStep = "awaitStabilize"
  /\ ~stabilizing
  /\ ttStep' = ttStep + 1
  /\ UNCHANGED <<tipDom, tipHiding, stabilizing, ttOp, ttStatus, ttTrace,
                 ttPanel, ttOpen, ttText, ttDomAtQuery>>

\* isOpen(), getTooltipText(): await this._optionalPanel()
TtOptionalPanel ==
  /\ TtCurStep = "optionalPanel"
  /\ ttPanel' = OptionalPanel(tipDom)
  /\ ttDomAtQuery' = tipDom
  /\ ttTrace' = Append(ttTrace, "optionalPanel")
  /\ ttStep' = ttStep + 1
  /\ UNCHANGED <<tipDom, tipHiding, stabilizing, ttOp, ttStatus, ttOpen, ttText>>

\* getTooltipText(): panel ? panel.text() : ''
TtPanelText ==
  /\ TtCurStep = "text"
  /\ ttText' = IF ttPanel # <<>> THEN TipMessage(ttPanel[1]) ELSE ""
  /\ ttStep' = ttStep + 1
  /\ UNCHANGED <<tipDom, tipHiding, stabilizing, ttOp, ttStatus, ttTrace,
                 ttPanel, ttOpen, ttDomAtQuery>>

\* The method's promise resolves; isOpen() resolves to !!panel.
TtReturn ==
  /\ TtCurStep = "return"
  /\ ttStatus' = "resolved"
  /\ ttOpen' = (ttOp = "isOpen" /\ ttPanel # <<>>)
  /\ UNCHANGED <<tipDom, tipHiding, stabilizing, ttOp, ttStep, ttTrace,
                 ttPanel, ttText, ttDomAtQuery>>

\* The test has taken the result and goes on.
TtDone ==
  /\ ttStatus = "resolved"
  /\ ttStatus' = "idle"
  /\ UNCHANGED <<tipDom, tipHiding, stabilizing, ttOp, ttStep, ttTrace,
                 ttPanel, ttOpen, ttText, ttDomAtQuery>>

(***************************************************************************)
(* HarnessPredicate: with() of each harness type, and the evaluation of    *)
(* the predicate it returns over the instances of that type in the root    *)
(* scope.                                                                  *)
(***************************************************************************)
HarnessTypes ==
  {"MatAutocompleteHarness", "MatSidenavContentHarness",
   "MatDrawerContainerHarness", "MatTooltipHarness", "MatDialogHarness"}

\* The instances of the harness type in the root scope.
Instances == {"i1", "i2"}

\* The values the input of an autocomplete can hold.
InputValues == {"foo", "fo", "oo"}

ValueFilters ==
  { TextFilter("undefined", ""), TextFilter("string", "foo"),
    TextFilter("string", "fo"), TextFilter("regexp", "^f"),
    TextFilter("regexp", "^o"), TextFilter("regexp", "oo") }

\* An argument list of with(): no argument, {}, or an object with a `value`
\* field (undefined, a string or a RegExp; the latter two for the
\* autocomplete, the only type whose filters declare the option).
WithArg(given, hasValue, value) ==
  [given |-> given, hasValue |-> hasValue, value |-> value]

WithArgs(type) ==
  { WithArg(FALSE, FALSE, TextFilter("undefined", "")),
    WithArg(TRUE, FALSE, TextFilter("undefined", "")),
    WithArg(TRUE, TRUE, TextFilter("undefined", "")) } \cup
  (IF type = "MatAutocompleteHarness"
     THEN {WithArg(TRUE, TRUE, v) : v \in ValueFilters}
     ELSE {})

\* Variant that defaults a missing value to the empty string: options.value || ''
OptionValueDefaulted(arg) ==
  IF arg.given /\ arg.hasValue /\ arg.value.kind # "undefined"
    THEN arg.value
    ELSE TextFilter("string", "")

\* options.value, where `options` defaults to {}.
OptionValue(arg) ==
  IF arg.given /\ arg.hasValue THEN arg.value ELSE TextFilter("undefined", "")

\* new HarnessPredicate(type, options): no check registered yet.
NewHarnessPredicate(type) == <<>>

\* addOption(name, value, matchFn): skipped when value is undefined.
AddOption(checks, name, value) ==
  IF value.kind = "undefined"
    THEN checks
    ELSE Append(checks, [name |-> name, value |-> value])

MatAutocompleteHarnessWith(arg) ==
  AddOption(NewHarnessPredicate("MatAutocompleteHarness"), "value", OptionValue(arg))

MatSidenavContentHarnessWith(arg) == NewHarnessPredicate("MatSidenavContentHarness")

MatDrawerContainerHarnessWith(arg) == NewHarnessPredicate("MatDrawerContainerHarness")

MatTooltipHarnessWith(arg) == NewHarnessPredicate("MatTooltipHarness")

MatDialogHarnessWith(arg) == NewHarnessPredicate("MatDialogHarness")

With(type, arg) ==
  CASE type = "MatAutocompleteHarness" -> MatAutocompleteHarnessWith(arg)
    [] type = "MatSidenavContentHarness" -> MatSidenavContentHarnessWith(arg)
    [] type = "MatDrawerContainerHarness" -> MatDrawerContainerHarnessWith(arg)
    [] type = "MatTooltipHarness" -> MatTooltipHarnessWith(arg)
    [] OTHER -> MatDialogHarnessWith(arg)

\* Variant whose match function uses the value the input had when with()
\* was called.
GetValueCaptured(now, atWith) == atWith

\* harness.getValue() inside the match function: the `value` property of the
\* host, read when the match function runs.
GetValue(now, atWith) == now

\* (harness, value) => HarnessPredicate.stringMatches(harness.getValue(), value)
ValueMatchFn(now, atWith, value) == StringMatches(GetValue(now, atWith), value)

PredicateInit ==
  /\ inputValue \in [Instances -> InputValues]
  /\ pdType = "none"
  /\ pdArg = WithArg(FALSE, FALSE, TextFilter("undefined", ""))
  /\ pdChecks = <<>>
  /\ pdStatus = "idle"
  /\ pdAccepted = [i \in Instances |-> "none"]
  /\ pdRan = {}
  /\ pdValAtEval = [i \in Instances |-> Null]
  /\ pdValAtWith = [i \in Instances |-> Null]

PredicateIdle == PredicateInit /\ inputValue = [i \in Instances |-> "foo"]

\* The user types: the value property of an input changes.
PdSetInputValue ==
  \E i \in Instances, v \in InputValues :
    /\ v # inputValue[i]
    /\ inputValue' = [inputValue EXCEPT ![i] = v]
    /\ UNCHANGED <<pdType, pdArg, pdChecks, pdStatus, pdAccepted, pdRan,
                   pdValAtEval, pdValAtWith>>

\* The test calls with() of a harness type.
PdWith ==
  \E type \in HarnessTypes :
    \E arg \in WithArgs(type) :
      /\ pdStatus \in {"idle", "done"}
      /\ pdType' = type
      /\ pdArg' = arg
      /\ pdChecks' = With(type, arg)
      /\ pdStatus' = "built"
      /\ pdAccepted' = [i \in Instances |-> "none"]
      /\ pdRan' = {}
      /\ pdValAtEval' = [i \in Instances |-> Null]
      /\ pdValAtWith' = inputValue
      /\ UNCHANGED inputValue

\* A locator evaluates the predicate on one instance: every registered check
\* runs its match function, and all of them must pass.
PdEvaluate ==
  \E i \in Instances :
    /\ pdStatus = "built"
    /\ pdAccepted[i] = "none"
    /\ pdAccepted' =
         [pdAccepted EXCEPT ![i] =
            IF \A k \in DOMAIN pdChecks :
                 ValueMatchFn(inputValue[i], pdValAtWith[i], pdChecks[k].value)
              THEN "yes" ELSE "no"]
    /\ pdRan' = pdRan \cup {<<i, pdChecks[k].name>> : k \in DOMAIN pdChecks}
    /\ pdValAtEval' = [pdValAtEval EXCEPT ![i] = inputValue[i]]
    /\ UNCHANGED <<inputValue, pdType, pdArg, pdChecks, pdStatus, pdValAtWith>>

\* The locator has evaluated the predicate on every instance.
PdFinish ==
  /\ pdStatus = "built"
  /\ \A i \in Instances : pdAccepted[i] # "none"
  /\ pdStatus' = "done"
  /\ UNCHANGED <<inputValue, pdType, pdArg, pdChecks, pdAccepted, pdRan,
                 pdValAtEval, pdValAtWith>>

(***************************************************************************)
(* MatDrawerContainerHarness: getDrawers and getContent of the harness     *)
(* bound to one container, over a document with two containers.            *)
(***************************************************************************)
DrawerElement(id, kind, container, position) ==
  [id |-> id, kind |-> kind, container |-> container, position |-> position]

\* The drawers and drawer contents a document can hold, in document order.
DrawerElements ==
  << DrawerElement("d1", "drawer", "c1", "start"),
     DrawerElement("k1", "content", "c1", ""),
     DrawerElement("d2", "drawer", "c1", "end"),
     DrawerElement("k2", "content", "c1", ""),
     DrawerElement("d3", "drawer", "c2", "start"),
     DrawerElement("k3", "content", "c2", "") >>

DrawerElementIds == {DrawerElements[k].id : k \in DOMAIN DrawerElements}

\* The container the harness is bound to (its host).
HostContainer == "c1"

\* DrawerHarnessFilters: the position asked for, or undefined.
DrawerFilters == {Undefined, "start", "end"}

\* MatDrawerHarness.with(filter) evaluated on a drawer.
DrawerMatches(e, filter) == filter = Undefined \/ e.position = filter

\* The elements of one kind under the host that a harness query matches, in
\* document order.
MatchesUnderHost(present, kind, filter) ==
  SelectSeq(DrawerElements,
            LAMBDA e : /\ e.id \in present
                       /\ e.kind = kind
                       /\ e.container = HostContainer
                       /\ (kind = "drawer" => DrawerMatches(e, filter)))

Ids(elems) == [k \in DOMAIN elems |-> elems[k].id]

Outcome(status, found, error) ==
  [status |-> status, found |-> found, error |-> error]

\* What calling a locator of each kind resolves to, given the matches.
Locate(kind, matches) ==
  CASE kind = "locatorForAll" -> Outcome("resolved", Ids(matches), "")
    [] kind = "locatorForOptional" ->
         Outcome("resolved", IF matches = <<>> THEN <<>> ELSE <<matches[1].id>>, "")
    [] OTHER ->
         IF matches = <<>>
           THEN Outcome("rejected", <<>>, "NotFoundError")
           ELSE Outcome("resolved", <<matches[1].id>>, "")

\* getDrawers: this.locatorForAll(MatDrawerHarness.with(filter))()
GetDrawersLocator == "locatorForAll"

\* Variant of getContent built on locatorForOptional.
GetContentLocatorOptional == "locatorForOptional"

\* getContent: this.locatorFor(MatDrawerContentHarness)()
GetContentLocator == "locatorFor"

DrawerInit ==
  /\ drPresent \in SUBSET DrawerElementIds
  /\ drOp = "none"
  /\ drFilter = Undefined
  /\ drOutcome = Outcome("idle", <<>>, "")

DrawerIdle == DrawerInit /\ drPresent = {}

\* Between two calls, a drawer or a content element is rendered or removed.
DrRender ==
  \E id \in DrawerElementIds :
    /\ drOutcome.status = "idle"
    /\ drPresent' = IF id \in drPresent THEN drPresent \ {id} ELSE drPresent \cup {id}
    /\ UNCHANGED <<drOp, drFilter, drOutcome>>

\* getDrawers(filter)
GetDrawers ==
  \E filter \in DrawerFilters :
    /\ drOutcome.status = "idle"
    /\ drOp' = "getDrawers"
    /\ drFilter' = filter
    /\ drOutcome' = Locate(GetDrawersLocator, MatchesUnderHost(drPresent, "drawer", filter))
    /\ UNCHANGED drPresent

\* getContent()
GetContent ==
  /\ drOutcome.status = "idle"
  /\ drOp' = "getContent"
  /\ drFilter' = Undefined
  /\ drOutcome' = Locate(GetContentLocator, MatchesUnderHost(drPresent, "content", Undefined))
  /\ UNCHANGED drPresent

\* The test has taken the result (or caught the error) and goes on.
DrDone ==
  /\ drOutcome.status # "idle"
  /\ drOutcome' = Outcome("idle", <<>>, "")
  /\ UNCHANGED <<drPresent, drOp, drFilter>>

(***************************************************************************)
(* ProtractorElement: one call at a time on one element.  peLog is what    *)
(* the call asked of the browser, in order.                                *)
(***************************************************************************)
Whitespace == {" ", "\t"}

ClassAlphabet == {"a", "b", " ", "\t"}

RECURSIVE StringsUpTo(_)
StringsUpTo(n) ==
  IF n = 0
    THEN {""}
    ELSE LET shorter == StringsUpTo(n - 1)
         IN shorter \cup {s \o c : s \in shorter, c \in ClassAlphabet}

\* What getAttribute('class') can return: null or a string.
ClassAttributes == {Null} \cup StringsUpTo(MaxClassLen)

ClassNameArgs == StringsUpTo(MaxNameLen)

CharAt(s, k) == SubSeq(s, k, k)

IsSpace(c) == c \in Whitespace

\* The end of the run of whitespace that starts at position k.
RECURSIVE SkipSpaces(_, _)
SkipSpaces(s, k) ==
  IF k <= Len(s) /\ IsSpace(CharAt(s, k)) THEN SkipSpaces(s, k + 1) ELSE k

\* s.split(/\s+/), scanning from position k with the token `cur` begun: a
\* leading or trailing run of whitespace yields an empty first or last token,
\* and the empty string yields one empty token.
RECURSIVE SplitWhitespace(_, _, _)
SplitWhitespace(s, k, cur) ==
  IF k > Len(s)
    THEN <<cur>>
    ELSE IF IsSpace(CharAt(s, k))
           THEN <<cur>> \o SplitWhitespace(s, SkipSpaces(s, k), "")
           ELSE SplitWhitespace(s, k + 1, cur \o CharAt(s, k))

\* (await this.getAttribute('class')) || ''
OrEmpty(attr) == IF attr = Null THEN "" ELSE attr

\* Variant without the filter: every token of the split is kept.
AllTokens(tokens) == tokens

\* .filter(c => c): the non-empty tokens.
NonEmptyTokens(tokens) == SelectSeq(tokens, LAMBDA c : c # "")

\* hasClass(name): new Set(classes.split(/\s+/).filter(c => c)).has(name)
HasClass(attr, name) ==
  LET tokens == NonEmptyTokens(SplitWhitespace(OrEmpty(attr), 1, ""))
  IN name \in {tokens[k] : k \in DOMAIN tokens}

ProtractorInit ==
  /\ peOp = "none"
  /\ peStatus = "idle"
  /\ peClass = Null
  /\ peOptions = 0
  /\ peSelected = {}
  /\ peCtrl = FALSE
  /\ peArgs = <<>>
  /\ peIndex = 0
  /\ peStep = "none"
  /\ peLog = <<>>
  /\ peResult = FALSE
  /\ peError = ""

\* hasClass(name) on an element with some class attribute.
PeHasClass ==
  \E attr \in ClassAttributes, name \in ClassNameArgs :
    /\ peStatus = "idle"
    /\ peOp' = "hasClass"
    /\ peClass' = attr
    /\ peArgs' = <<name>>
    /\ peLog' = <<[op |-> "getAttribute", arg |-> "class"]>>
    /\ peResult' = HasClass(attr, name)
    /\ peStatus' = "resolved"
    /\ peError' = ""
    /\ UNCHANGED <<peOptions, peSelected, peCtrl, peIndex, peStep>>

(***************************************************************************)
(* ProtractorElement.selectOptions, one awaited step per action.           *)
(***************************************************************************)
SeqsUpTo(S, n) == UNION {[1..k -> S] : k \in 0..n}

\* The argument lists of selectOptions: indices in and out of range, in any
\* order, with repetitions.
IndexArgLists == SeqsUpTo(-1..MaxOptions, MaxIndexArgs)

Asked(op, arg) == [op |-> op, arg |-> arg]

\* new Set(optionIndexes)
IndexSet(args) == {args[k] : k \in DOMAIN args}

\* if (options.length && indexes.size)
SelectOptionsActs(n, indexes) == n # 0 /\ indexes # {}

\* for (let i = ...; i < options.length; i++) if (indexes.has(i)): the next
\* index at or after i whose body runs, or options.length when the loop ends.
RECURSIVE NextRequested(_, _, _)
NextRequested(i, n, indexes) ==
  IF i >= n \/ i \in indexes THEN i ELSE NextRequested(i + 1, n, indexes)

LoopStep(i, n) == IF i < n THEN "keyDown" ELSE "return"

\* A click on an option while the control key is held toggles it; without
\* the key it becomes the only selected option.
SelectedAfterClick(selected, i, ctrl) ==
  IF ctrl
    THEN (IF i \in selected THEN selected \ {i} ELSE selected \cup {i})
    ELSE {i}

\* selectOptions(...optionIndexes) is called on an element with n options,
\* some of them selected: await this.element.all(by.css('option'))
PeSelectOptions ==
  \E n \in 0..MaxOptions, args \in IndexArgLists :
    \E sel \in SUBSET (0..(n - 1)) :
      /\ peStatus = "idle"
      /\ peOp' = "selectOptions"
      /\ peStatus' = "running"
      /\ peOptions' = n
      /\ peSelected' = sel
      /\ peArgs' = args
      /\ peLog' = <<Asked("all", "option")>>
      /\ peStep' = IF SelectOptionsActs(n, IndexSet(args)) THEN "setInputValue" ELSE "return"
      /\ peIndex' = 0
      /\ UNCHANGED <<peClass, peCtrl, peResult, peError>>

\* await this.setInputValue(''): all the selected states are cleared.
PeSetInputValue ==
  /\ peStatus = "running" /\ peStep = "setInputValue"
  /\ peLog' = Append(peLog, Asked("setInputValue", ""))
  /\ peSelected' = {}
  /\ peIndex' = NextRequested(0, peOptions, IndexSet(peArgs))
  /\ peStep' = LoopStep(NextRequested(0, peOptions, IndexSet(peArgs)), peOptions)
  /\ UNCHANGED <<peOp, peStatus, peClass, peOptions, peCtrl, peArgs, peResult,
                 peError>>

\* await browser.actions().keyDown(Key.CONTROL).perform()
PeKeyDown ==
  /\ peStatus = "running" /\ peStep = "keyDown"
  /\ peLog' = Append(peLog, Asked("keyDown", "CONTROL"))
  /\ peCtrl' = TRUE
  /\ peStep' = "click"
  /\ UNCHANGED <<peOp, peStatus, peClass, peOptions, peSelected, peArgs,
                 peIndex, peResult, peError>>

\* await options[i].click()
PeOptionClick ==
  /\ peStatus = "running" /\ peStep = "click"
  /\ peLog' = Append(peLog, Asked("click", ToString(peIndex)))
  /\ peSelected' = SelectedAfterClick(peSelected, peIndex, peCtrl)
  /\ peStep' = "keyUp"
  /\ UNCHANGED <<peOp, peStatus, peClass, peOptions, peCtrl, peArgs, peIndex,
                 peResult, peError>>

\* await browser.actions().keyUp(Key.CONTROL).perform(), then i++ and the
\* loop goes on to the next requested index.
PeKeyUp ==
  /\ peStatus = "running" /\ peStep = "keyUp"
  /\ peLog' = Append(peLog, Asked("keyUp", "CONTROL"))
  /\ peCtrl' = FALSE
  /\ peIndex' = NextRequested(peIndex + 1, peOptions, IndexSet(peArgs))
  /\ peStep' = LoopStep(NextRequested(peIndex + 1, peOptions, IndexSet(peArgs)), peOptions)
  /\ UNCHANGED <<peOp, peStatus, peClass, peOptions, peSelected, peArgs,
                 peResult, peError>>

\* The promise of selectOptions resolves.
PeSelectReturn ==
  /\ peStatus = "running" /\ peStep = "return"
  /\ peStatus' = "resolved"
  /\ UNCHANGED <<peOp, peClass, peOptions, peSelected, peCtrl, peArgs, peIndex,
                 peStep, peLog, peResult, peError>>

(***************************************************************************)
(* ProtractorElement.sendKeys.                                             *)
(***************************************************************************)
\* An argument of sendKeys: a ModifierKeys object (the modifiers set to
\* true), a string, or a TestKey.
KeyArg(t, s, mods) == [t |-> t, s |-> s, mods |-> mods]

ModifierNames == {"control", "alt", "shift", "meta"}

ModifierObjects == {KeyArg("object", "", m) : m \in SUBSET ModifierNames}

TestKeys ==
  {"BACKSPACE", "TAB", "ENTER", "SHIFT", "CONTROL", "ALT", "ESCAPE", "PAGE_UP",
   "PAGE_DOWN", "END", "HOME", "LEFT_ARROW", "UP_ARROW", "RIGHT_ARROW",
   "DOWN_ARROW", "INSERT", "DELETE", "F1", "F2", "F3", "F4", "F5", "F6", "F7",
   "F8", "F9", "F10", "F11", "F12", "META"}

\* keyMap: the Protractor Key of each TestKey.
keyMap ==
  [k \in TestKeys |->
     CASE k = "BACKSPACE" -> "Key.BACK_SPACE"
       [] k = "LEFT_ARROW" -> "Key.ARROW_LEFT"
       [] k = "UP_ARROW" -> "Key.ARROW_UP"
       [] k = "RIGHT_ARROW" -> "Key.ARROW_RIGHT"
       [] k = "DOWN_ARROW" -> "Key.ARROW_DOWN"
       [] OTHER -> "Key." \o k]

\* The strings and TestKeys the calls are made with.
KeyArgs ==
  { KeyArg("string", "", {}), KeyArg("string", "a", {}),
    KeyArg("string", "ab", {}), KeyArg("number", "ENTER", {}),
    KeyArg("number", "LEFT_ARROW", {}) }

\* The argument lists of sendKeys: keys, with or without a leading
\* ModifierKeys object.
SendKeysArgLists ==
  LET keys == SeqsUpTo(KeyArgs, MaxKeyArgs)
  IN keys \cup {<<m>> \o k : m \in ModifierObjects, k \in keys}

\* toProtractorModifierKeys(modifiers)
toProtractorModifierKeys(modifiers) ==
  (IF "control" \in modifiers THEN <<"Key.CONTROL">> ELSE <<>>) \o
  (IF "alt" \in modifiers THEN <<"Key.ALT">> ELSE <<>>) \o
  (IF "shift" \in modifiers THEN <<"Key.SHIFT">> ELSE <<>>) \o
  (IF "meta" \in modifiers THEN <<"Key.META">> ELSE <<>>)

\* typeof first !== 'string' && typeof first !== 'number', where first is
\* modifiersAndKeys[0] (undefined for an empty list).
FirstIsModifiers(args) == args = <<>> \/ args[1].t \notin {"string", "number"}

\* modifiersAndKeys.slice(1)
Slice1(args) == IF args = <<>> THEN <<>> ELSE Tail(args)

\* k.split('')
SplitChars(s) == [k \in 1..Len(s) |-> CharAt(s, k)]

\* rest.map(k => typeof k === 'string' ? k.split('') : [keyMap[k]])
\*     .reduce((arr, k) => arr.concat(k), [])
RECURSIVE FlattenKeys(_)
FlattenKeys(rest) ==
  IF rest = <<>>
    THEN <<>>
    ELSE (IF rest[1].t = "string" THEN SplitChars(rest[1].s) ELSE <<keyMap[rest[1].s]>>)
         \o FlattenKeys(Tail(rest))

Dispatched(key, chord) == [key |-> key, chord |-> chord]

\* .map(k => modifierKeys.length > 0 ? Key.chord(...modifierKeys, k) : k)
ChordKeys(keys, modifierKeys) == [k \in DOMAIN keys |-> Dispatched(keys[k], modifierKeys)]

\* sendKeys(...modifiersAndKeys): the keys handed to element.sendKeys, or the
\* TypeError of reading `control` of an undefined `modifiers`.
SendKeys(args) ==
  LET fromFirst == FirstIsModifiers(args)
      rest == IF fromFirst THEN Slice1(args) ELSE args
  IN IF fromFirst /\ args = <<>>
       THEN [status |-> "rejected", keys |-> <<>>, error |-> "TypeError"]
       ELSE [status |-> "resolved",
             keys |-> ChordKeys(FlattenKeys(rest),
                                toProtractorModifierKeys(
                                  IF fromFirst THEN args[1].mods ELSE {})),
             error |-> ""]

PeSendKeys ==
  \E args \in SendKeysArgLists :
    /\ peStatus = "idle"
    /\ peOp' = "sendKeys"
    /\ peArgs' = args
    /\ peStatus' = SendKeys(args).status
    /\ peLog' = SendKeys(args).keys
    /\ peError' = SendKeys(args).error
    /\ UNCHANGED <<peClass, peOptions, peSelected, peCtrl, peIndex, peStep,
                   peResult>>

(***************************************************************************)
(* ProtractorElement.click and rightClick.                                 *)
(***************************************************************************)
\* An argument of click / rightClick: a ModifierKeys object (the modifiers
\* set to true), the string 'center', or a number.
ClickArg(t, n, mods) == [t |-> t, n |-> n, mods |-> mods]

Coordinates == {0, 3}

ClickModifierObjects == {ClickArg("object", 0, m) : m \in SUBSET ModifierNames}

\* [ModifierKeys?] | ['center', ModifierKeys?] | [number, number, ModifierKeys?]
ClickArgLists ==
  LET anchors == {<<>>, <<ClickArg("string", 0, {})>>} \cup
                 {<<ClickArg("number", x, {}), ClickArg("number", y, {})>> :
                    x \in Coordinates, y \in Coordinates}
  IN anchors \cup {a \o <<m>> : a \in anchors, m \in ClickModifierObjects}

Action(op, arg, offset) == [op |-> op, arg |-> arg, offset |-> offset]

\* args.length && typeof args[args.length - 1] === 'object'
LastIsModifiers(args) == args # <<>> /\ args[Len(args)].t = "object"

\* args after `modifiers = args.pop()`
Popped(args) == IF LastIsModifiers(args) THEN SubSeq(args, 1, Len(args) - 1) ELSE args

\* args.length === 2 ? [{x: args[0], y: args[1]}] : []
OffsetArgs(args) ==
  IF Len(args) = 2 THEN <<[x |-> args[1].n, y |-> args[2].n]>> ELSE <<>>

KeyDowns(modifierKeys) ==
  [k \in DOMAIN modifierKeys |-> Action("keyDown", modifierKeys[k], <<>>)]

\* Variant that leaves the modifier keys pressed.
NoKeyUps(modifierKeys) == <<>>

KeyUps(modifierKeys) ==
  [k \in DOMAIN modifierKeys |-> Action("keyUp", modifierKeys[k], <<>>)]

\* _dispatchClickEventSequence(args, button): the actions performed.
DispatchClickEventSequence(args, button) ==
  LET modifierKeys ==
        toProtractorModifierKeys(IF LastIsModifiers(args) THEN args[Len(args)].mods ELSE {})
  IN <<Action("mouseMove", "element", OffsetArgs(Popped(args)))>>
     \o KeyDowns(modifierKeys)
     \o <<Action("click", button, <<>>)>>
     \o KeyUps(modifierKeys)

\* click passes Button.LEFT, rightClick Button.RIGHT.
ButtonOf(method) == IF method = "click" THEN "Button.LEFT" ELSE "Button.RIGHT"

PeClick ==
  \E method \in {"click", "rightClick"}, args \in ClickArgLists :
    /\ peStatus = "idle"
    /\ peOp' = method
    /\ peArgs' = args
    /\ peLog' = DispatchClickEventSequence(args, ButtonOf(method))
    /\ peStatus' = "resolved"
    /\ UNCHANGED <<peClass, peOptions, peSelected, peCtrl, peIndex, peStep,
                   peResult, peError>>

(***************************************************************************)
(* ProtractorElement.dispatchEvent and the _dispatchEvent script it runs   *)
(* in the browser.                                                         *)
(***************************************************************************)
EventNames == {"custom", "click"}

\* The property names `data` is built from: two that an Event does not have
\* and two that it has.
EventDataKeys == {"animationName", "pointerId", "bubbles", "type"}

EventDataValues == {"v1", "v2"}

\* The properties of an Event that have a getter and no setter.
ReadOnlyEventProperties ==
  {"type", "target", "currentTarget", "eventPhase", "bubbles", "cancelable",
   "defaultPrevented", "composed", "isTrusted", "timeStamp"}

\* data?: Record<string, EventData>: omitted, or an object.
EventDataArgs ==
  {[given |-> FALSE, data |-> <<>>]} \cup
  {[given |-> TRUE, data |-> d] :
     d \in UNION {[K -> EventDataValues] : K \in SUBSET EventDataKeys}}

\* document.createEvent('Event'); event.initEvent(name)
CreateEvent(name) ==
  [type |-> name, bubbles |-> FALSE, cancelable |-> FALSE, own |-> <<>>]

\* Whether Object.assign(event, data) throws: it assigns with [[Set]], which
\* fails on a property that has only a getter.
AssignThrows(data) == \E p \in DOMAIN data : p \in ReadOnlyEventProperties

\* The event after Object.assign(event, data): the properties of data are
\* own properties of the event.
AssignData(event, data) == [event EXCEPT !.own = data]

\* _dispatchEvent(name, element, data): the events the element's listeners
\* receive, or the TypeError of Object.assign.
DispatchEvent(name, arg) ==
  IF arg.given /\ AssignThrows(arg.data)
    THEN [status |-> "rejected", events |-> <<>>, error |-> "TypeError"]
    ELSE [status |-> "resolved",
          events |-> <<IF arg.given
                         THEN AssignData(CreateEvent(name), arg.data)
                         ELSE CreateEvent(name)>>,
          error |-> ""]

PeDispatchEvent ==
  \E name \in EventNames, arg \in EventDataArgs :
    /\ peStatus = "idle"
    /\ peOp' = "dispatchEvent"
    /\ peArgs' = <<[name |-> name, given |-> arg.given, data |-> arg.data]>>
    /\ peStatus' = DispatchEvent(name, arg).status
    /\ peLog' = DispatchEvent(name, arg).events
    /\ peError' = DispatchEvent(name, arg).error
    /\ UNCHANGED <<peClass, peOptions, peSelected, peCtrl, peIndex, peStep,
                   peResult>>

\* The test has taken the result (or caught the error) and goes on to a
\* call on another element.
PeDone ==
  /\ peStatus \in {"resolved", "rejected"}
  /\ peOp' = "none"
  /\ peStatus' = "idle"
  /\ peClass' = Null
  /\ peOptions' = 0
  /\ peSelected' = {}
  /\ peCtrl' = FALSE
  /\ peArgs' = <<>>
  /\ peIndex' = 0
  /\ peStep' = "none"
  /\ peLog' = <<>>
  /\ peResult' = FALSE
  /\ peError' = ""

(***************************************************************************)
(* Fake events: createMouseEvent and createKeyboardEvent, and the          *)
(* preventDefault they install on the event.                               *)
(***************************************************************************)
\* The browsers the events are built in.  On IE, preventDefault of a
\* synthetic event does not set defaultPrevented; Firefox has initKeyEvent;
\* WebKit does not set keyCode in the init function.
Backends == {"ie", "firefox", "webkit"}

MouseEventTypes == {"click", "mousedown"}

ClientCoordinates == {0, 5}

MouseButtons == {0, 2}

KeyboardEventTypes == {"keydown", "keyup"}

KeyCodes == {0, 13}

KeyValues == {"", "Enter"}

\* defineReadonlyEventProperty(event, propertyName, value): the own
\* properties of the event after the call; the property is configurable, so
\* an earlier definition is replaced.
defineReadonlyEventProperty(own, propertyName, value) ==
  [p \in (DOMAIN own) \cup {propertyName} |->
     IF p = propertyName THEN value ELSE own[p]]

NoOwnProperties == [p \in {} |-> FALSE]

\* What initMouseEvent leaves in the event itself: buttons is 0.
NativeMouseEvent(type, clientX, clientY, button, modifiers) ==
  [type |-> type, clientX |-> clientX, clientY |-> clientY, screenX |-> clientX,
   screenY |-> clientY, button |-> button, buttons |-> 0,
   ctrlKey |-> "control" \in modifiers, altKey |-> "alt" \in modifiers,
   shiftKey |-> "shift" \in modifiers, metaKey |-> "meta" \in modifiers,
   defaultPrevented |-> FALSE]

\* defineReadonlyEventProperty(event, 'buttons', 1)
MouseEventOwn == defineReadonlyEventProperty(NoOwnProperties, "buttons", 1)

\* What initKeyEvent or initKeyboardEvent leaves in the event itself.
NativeKeyboardEvent(backend, type, keyCode, key, modifiers) ==
  [type |-> type,
   keyCode |-> IF backend = "firefox" THEN keyCode ELSE 0,
   key |-> IF backend = "firefox" THEN "" ELSE key,
   buttons |-> 0,
   ctrlKey |-> "control" \in modifiers, altKey |-> "alt" \in modifiers,
   shiftKey |-> "shift" \in modifiers, metaKey |-> "meta" \in modifiers,
   defaultPrevented |-> FALSE]

\* The six defineReadonlyEventProperty calls of createKeyboardEvent.
KeyboardEventOwn(keyCode, key, modifiers) ==
  defineReadonlyEventProperty(
    defineReadonlyEventProperty(
      defineReadonlyEventProperty(
        defineReadonlyEventProperty(
          defineReadonlyEventProperty(
            defineReadonlyEventProperty(NoOwnProperties, "keyCode", keyCode),
            "key", key),
          "ctrlKey", "control" \in modifiers),
        "altKey", "alt" \in modifiers),
      "shiftKey", "shift" \in modifiers),
    "metaKey", "meta" \in modifiers)

\* Variant of the installed preventDefault that only calls the original.
OwnUnchanged(own) == own

\* The installed preventDefault:
\* defineReadonlyEventProperty(event, 'defaultPrevented', true)
OwnAfterPreventDefault(own) ==
  defineReadonlyEventProperty(own, "defaultPrevented", TRUE)

\* originalPreventDefault() on a cancelable event: sets the event's own
\* flag, except on IE for a synthetic event.
NativeAfterPreventDefault(backend, native) ==
  IF backend = "ie" THEN native ELSE [native EXCEPT !.defaultPrevented = TRUE]

\* Reading a property of the event: the own property if one was defined,
\* otherwise what the event itself holds.
ReadProperty(name) ==
  IF name \in DOMAIN evOwn THEN evOwn[name] ELSE evNative[name]

FakeEventsInit ==
  /\ evBackend \in Backends
  /\ evKind = "none"
  /\ evNative = [type |-> ""]
  /\ evOwn = NoOwnProperties
  /\ evCalls = 0
  /\ evOriginalCalls = 0

FakeEventsIdle == FakeEventsInit /\ evBackend = "ie"

CreateMouseEvent ==
  \E type \in MouseEventTypes, clientX \in ClientCoordinates,
     clientY \in ClientCoordinates, button \in MouseButtons,
     modifiers \in SUBSET ModifierNames :
    /\ evKind = "none"
    /\ evKind' = "mouse"
    /\ evNative' = NativeMouseEvent(type, clientX, clientY, button, modifiers)
    /\ evOwn' = MouseEventOwn
    /\ UNCHANGED <<evBackend, evCalls, evOriginalCalls>>

CreateKeyboardEvent ==
  \E type \in KeyboardEventTypes, keyCode \in KeyCodes, key \in KeyValues,
     modifiers \in SUBSET ModifierNames :
    /\ evKind = "none"
    /\ evKind' = "keyboard"
    /\ evNative' = NativeKeyboardEvent(evBackend, type, keyCode, key, modifiers)
    /\ evOwn' = KeyboardEventOwn(keyCode, key, modifiers)
    /\ UNCHANGED <<evBackend, evCalls, evOriginalCalls>>

\* A listener calls event.preventDefault().
PreventDefault ==
  /\ evKind # "none"
  /\ evCalls < MaxPreventCalls
  /\ evCalls' = evCalls + 1
  /\ evOwn' = OwnAfterPreventDefault(evOwn)
  /\ evOriginalCalls' = evOriginalCalls + 1
  /\ evNative' = NativeAfterPreventDefault(evBackend, evNative)
  /\ UNCHANGED <<evBackend, evKind>>

\* The event is dropped; the next one is built afresh.
DiscardEvent ==
  /\ evKind # "none"
  /\ evKind' = "none"
  /\ evNative' = [type |-> ""]
  /\ evOwn' = NoOwnProperties
  /\ evCalls' = 0
  /\ evOriginalCalls' = 0
  /\ UNCHANGED evBackend

(***************************************************************************)
(* ng-update migrations: ElementSelectorsMigration and                     *)
(* PropertyNamesMigration record edits (remove + insertRight) on a file.   *)
(***************************************************************************)
\* Entries of the element-selector upgrade data.  Two of them share their
\* `replace` string, "a" is a substring of "aa", and "aa" occurs in "aaa"
\* at overlapping offsets.
ElementSelectorUpgradeData ==
  { [replace |-> "a",  replaceWith |-> "x"],
    [replace |-> "a",  replaceWith |-> "y"],
    [replace |-> "aa", replaceWith |-> "x"] }

RECURSIVE ListsUpTo(_, _)
ListsUpTo(S, n) ==
  IF n = 0
    THEN {<<>>}
    ELSE LET shorter == ListsUpTo(S, n - 1)
         IN shorter \cup {Append(l, e) : l \in shorter, e \in S}

ContentAlphabet == {"a", "b"}

RECURSIVE ContentsUpTo(_)
ContentsUpTo(n) ==
  IF n = 0
    THEN {""}
    ELSE LET shorter == ContentsUpTo(n - 1)
         IN shorter \cup {s \o c : s \in shorter, c \in ContentAlphabet}

\* The text of a template, a stylesheet or a string literal.
Contents == ContentsUpTo(MaxContentLen)

\* Where the resource or the node starts in its file.
ResourceStarts == {0, 4}

\* The kind of the parent of a string literal; "none" is a node without
\* parent.
ParentKinds == {"none", "CallExpression", "PropertyAssignment"}

\* findAllSubstringIndices(input, search): the offsets at which search
\* occurs in input, ascending; occurrences may overlap.
RECURSIVE IndicesFrom(_, _, _)
IndicesFrom(input, search, i) ==
  IF i + Len(search) > Len(input)
    THEN <<>>
    ELSE (IF SubSeq(input, i + 1, i + Len(search)) = search
            THEN <<i>> ELSE <<>>)
         \o IndicesFrom(input, search, i + 1)

findAllSubstringIndices(input, search) == IndicesFrom(input, search, 0)

\* fileSystem.edit(filePath).remove(start, length).insertRight(start, text):
\* the edit recorded on the file.
Edit(start, length, text) ==
  [start |-> start, length |-> length, insert |-> text]

\* _replaceSelector(filePath, start, data).
ReplaceSelector(start, data) ==
  <<Edit(start, Len(data.replace), data.replaceWith)>>

\* .map(offset => start + offset).forEach(start => _replaceSelector(...))
\* for one selector.
RECURSIVE ReplaceAt(_, _, _, _)
ReplaceAt(offsets, k, start, selector) ==
  IF k > Len(offsets)
    THEN <<>>
    ELSE ReplaceSelector(start + offsets[k], selector)
         \o ReplaceAt(offsets, k + 1, start, selector)

\* this.data.forEach(selector => ...): the edits of visitTemplate,
\* visitStylesheet and _visitStringLiteralLike on one text.
RECURSIVE VisitText(_, _, _, _)
VisitText(data, k, content, start) ==
  IF k > Len(data)
    THEN <<>>
    ELSE ReplaceAt(findAllSubstringIndices(content, data[k].replace), 1,
                   start, data[k])
         \o VisitText(data, k + 1, content, start)

\* _visitStringLiteralLike returns early for a literal whose parent is not
\* a call expression.
VisitStringLiteralLikeEdits(parentKind, data, text, start) ==
  IF parentKind # "none" /\ parentKind # "CallExpression"
    THEN <<>>
    ELSE VisitText(data, 1, text, start)

\* Entries of the property-name upgrade data; limitedTo is absent (given
\* FALSE) or holds the class names the rename is limited to.
NoLimit == [given |-> FALSE, classes |-> {}]

PropertyNameUpgradeData ==
  [replace : {"a", "ab"}, replaceWith : {"x"},
   limitedTo : {NoLimit, [given |-> TRUE, classes |-> {"A"}]}]
  \cup {[replace |-> "a", replaceWith |-> "y", limitedTo |-> NoLimit]}

\* The upgrade data a migration can be constructed with.
ElementSelectorData == ListsUpTo(ElementSelectorUpgradeData, MaxUpgradeData)

PropertyNameData == ListsUpTo(PropertyNameUpgradeData, MaxUpgradeData)

PropertyNames == {"a", "ab", "b"}

\* The name of the symbol of the host type; Undefined without type or
\* symbol.
TypeNames == {"A", "B", Undefined}

\* _visitPropertyAccessExpression: one edit over the name per entry whose
\* `replace` equals the name and whose limitedTo admits the host type.
RECURSIVE VisitPropertyAccessExpressionEdits(_, _, _, _, _)
VisitPropertyAccessExpressionEdits(data, k, nameText, nameStart, typeName) ==
  IF k > Len(data)
    THEN <<>>
    ELSE (IF nameText # data[k].replace
            THEN <<>>
            ELSE IF ~data[k].limitedTo.given
                    \/ typeName \in data[k].limitedTo.classes
                   THEN <<Edit(nameStart, Len(nameText), data[k].replaceWith)>>
                   ELSE <<>>)
         \o VisitPropertyAccessExpressionEdits(data, k + 1, nameText,
                                               nameStart, typeName)

MigrationInit ==
  /\ mgOp = "none"
  /\ mgData = <<>>
  /\ mgContent = ""
  /\ mgStart = 0
  /\ mgParent = "none"
  /\ mgType = Undefined
  /\ mgEdits = <<>>

MigrationIdle == MigrationInit

\* ElementSelectorsMigration.visitTemplate(template).
VisitTemplate ==
  \E data \in ElementSelectorData,
     content \in Contents, start \in ResourceStarts :
    /\ mgOp = "none"
    /\ mgOp' = "visitTemplate"
    /\ mgData' = data
    /\ mgContent' = content
    /\ mgStart' = start
    /\ mgEdits' = VisitText(data, 1, content, start)
    /\ UNCHANGED <<mgParent, mgType>>

\* ElementSelectorsMigration.visitStylesheet(stylesheet).
VisitStylesheet ==
  \E data \in ElementSelectorData,
     content \in Contents, start \in ResourceStarts :
    /\ mgOp = "none"
    /\ mgOp' = "visitStylesheet"
    /\ mgData' = data
    /\ mgContent' = content
    /\ mgStart' = start
    /\ mgEdits' = VisitText(data, 1, content, start)
    /\ UNCHANGED <<mgParent, mgType>>

\* ElementSelectorsMigration.visitNode(node) on a string literal.
VisitStringLiteralLike ==
  \E data \in ElementSelectorData,
     text \in Contents, parentKind \in ParentKinds :
    /\ mgOp = "none"
    /\ mgOp' = "visitStringLiteralLike"
    /\ mgData' = data
    /\ mgContent' = text
    /\ mgStart' = 4
    /\ mgParent' = parentKind
    /\ mgEdits' = VisitStringLiteralLikeEdits(parentKind, data, text, 4)
    /\ UNCHANGED mgType

\* PropertyNamesMigration.visitNode(node) on a property access expression.
VisitPropertyAccessExpression ==
  \E data \in PropertyNameData,
     nameText \in PropertyNames, typeName \in TypeNames :
    /\ mgOp = "none"
    /\ mgOp' = "visitPropertyAccessExpression"
    /\ mgData' = data
    /\ mgContent' = nameText
    /\ mgStart' = 4
    /\ mgType' = typeName
    /\ mgEdits' = VisitPropertyAccessExpressionEdits(data, 1, nameText, 4,
                                                     typeName)
    /\ UNCHANGED mgParent

\* The next file is visited with a fresh edit list.
MgNextFile ==
  /\ mgOp # "none"
  /\ mgOp' = "none"
  /\ mgData' = <<>>
  /\ mgContent' = ""
  /\ mgStart' = 0
  /\ mgParent' = "none"
  /\ mgType' = Undefined
  /\ mgEdits' = <<>>

(***************************************************************************)
(* CdkTextareaAutosize: resizeToFitContent, reset, the enabled and minRows *)
(* setters, the lifecycle hooks and the deferred _scrollToCaretPosition.   *)
(* maxRows is never bound: _setMaxHeight then leaves the element alone.    *)
(***************************************************************************)
\* _minRows before the first binding: undefined.
UndefinedRows == -2

\* The values a minRows binding hands to the setter: "n:" a number, "null".
NumberInputs == {"n:3", "null"}

\* coerceNumberProperty(value): the number, or the fallback 0 for a value
\* that is no number.
CoerceNumberProperty(value) ==
  CASE value = "n:3" -> 3
    [] OTHER -> 0

\* textarea.value, and the number of lines it takes.
TextareaValues == {"", "a\nb"}

Lines(value) == IF value = "a\nb" THEN 2 ELSE 1

\* style.height of the element before the directive touches it.
AuthorHeights == {"", "5px"}

Px(n) == ToString(n) \o "px"

\* textareaClone.clientHeight: the height of one row when the textarea is
\* laid out, 0 when it is not (hidden, or no browser).
ClientHeight(rendered) == IF rendered THEN 10 ELSE 0

\* textarea.scrollHeight under the measuring class: the rows of the content,
\* at least minRows, plus the 4px padding of the measuring class.
ScrollHeight(value, minRows, lineHeight) ==
  (IF minRows > Lines(value) THEN minRows ELSE Lines(value)) * lineHeight + 4

\* _setMinHeight(): style.minHeight afterwards.
SetMinHeight(minRows, lineHeight, current) ==
  IF minRows # UndefinedRows /\ minRows # 0 /\ lineHeight # 0
    THEN Px(minRows * lineHeight)
    ELSE current

\* _cacheTextareaLineHeight(): the cached line height and style.minHeight
\* afterwards.
CacheTextareaLineHeight ==
  IF asLineHeight # 0
    THEN [lineHeight |-> asLineHeight, minHeight |-> asMinHeight]
    ELSE LET measured == ClientHeight(asRendered)
         IN [lineHeight |-> measured,
             minHeight |-> SetMinHeight(asMinRows, measured, asMinHeight)]

\* The variant resizes on every call that gets this far.
NeedsResizeAlways(force, minRows, previousMinRows, value, previousValue) ==
  TRUE

\* The negation of the early return
\* `!force && this._minRows === this._previousMinRows && value === this._previousValue`.
NeedsResize(force, minRows, previousMinRows, value, previousValue) ==
  force \/ minRows # previousMinRows \/ value # previousValue

\* What one call leaves behind; `scheduled` counts the callbacks it hands to
\* requestAnimationFrame or setTimeout.
Resized(cache, height, previousValue, previousMinRows, recomputed) ==
  [lineHeight |-> cache.lineHeight, minHeight |-> cache.minHeight,
   height |-> height, previousValue |-> previousValue,
   previousMinRows |-> previousMinRows, recomputed |-> recomputed,
   scheduled |-> IF recomputed THEN 1 ELSE 0]

\* resizeToFitContent(force), with _enabled as the caller left it.
ResizeToFitContent(force, enabled) ==
  LET untouched == [lineHeight |-> asLineHeight, minHeight |-> asMinHeight]
      cache == CacheTextareaLineHeight
  IN IF ~enabled
       THEN Resized(untouched, asHeight, asPrevValue, asPrevMinRows, FALSE)
       ELSE IF cache.lineHeight = 0
              \/ ~NeedsResize(force, asMinRows, asPrevMinRows, asValue,
                              asPrevValue)
         THEN Resized(cache, asHeight, asPrevValue, asPrevMinRows, FALSE)
         ELSE Resized(cache,
                      Px(ScrollHeight(asValue, asMinRows, cache.lineHeight) - 4),
                      asValue, asMinRows, TRUE)

\* The variant writes the recorded height even when none was recorded.
ResetHeightUnguarded(height, initialHeight) ==
  IF initialHeight = Undefined THEN "" ELSE initialHeight

\* reset(): style.height afterwards.
ResetHeight(height, initialHeight) ==
  IF initialHeight # Undefined THEN initialHeight ELSE height

\* The variant ignores whether the directive was destroyed.
MaySetSelectionIfActive(stopped, active) == active

\* _scrollToCaretPosition: the condition under which setSelectionRange is
\* called.
MaySetSelection(stopped, active) == ~stopped /\ active

\* What the last step did: the operation, the resize call it made ("none",
\* "default" for force = false, "forced"), whether the height was
\* recomputed, and what the deferred callback did with the selection.
AsDid(op, resize, recomputed, selection) ==
  [op |-> op, resize |-> resize, recomputed |-> recomputed,
   selection |-> selection]

\* The fields written by a call of resizeToFitContent.
ApplyResize(op, force, r) ==
  /\ asLineHeight' = r.lineHeight
  /\ asMinHeight' = r.minHeight
  /\ asHeight' = r.height
  /\ asPrevValue' = r.previousValue
  /\ asPrevMinRows' = r.previousMinRows
  /\ asCallbacks' = asCallbacks + r.scheduled
  /\ asDid' = AsDid(op, IF force THEN "forced" ELSE "default", r.recomputed,
                    "none")

AutosizeInit ==
  /\ asBrowser \in BOOLEAN
  /\ asRendered = FALSE
  /\ asOriginalHeight \in AuthorHeights
  /\ asHeight = asOriginalHeight
  /\ asMinHeight = ""
  /\ asValue = ""
  /\ asEnabled = TRUE
  /\ asMinRows = UndefinedRows
  /\ asPrevValue = Undefined
  /\ asPrevMinRows = -1
  /\ asInitialHeight = Undefined
  /\ asLineHeight = 0
  /\ asViewInit = FALSE
  /\ asDestroyed = FALSE
  /\ asSubscribed = FALSE
  /\ asAuditPending = FALSE
  /\ asFocused = FALSE
  /\ asCallbacks = 0
  /\ asDid = AsDid("none", "none", FALSE, "none")

AutosizeIdle ==
  /\ asBrowser = TRUE
  /\ asRendered = FALSE
  /\ asOriginalHeight = ""
  /\ asHeight = ""
  /\ asMinHeight = ""
  /\ asValue = ""
  /\ asEnabled = TRUE
  /\ asMinRows = UndefinedRows
  /\ asPrevValue = Undefined
  /\ asPrevMinRows = -1
  /\ asInitialHeight = Undefined
  /\ asLineHeight = 0
  /\ asViewInit = FALSE
  /\ asDestroyed = FALSE
  /\ asSubscribed = FALSE
  /\ asAuditPending = FALSE
  /\ asFocused = FALSE
  /\ asCallbacks = 0
  /\ asDid = AsDid("none", "none", FALSE, "none")

\* The element is laid out or hidden; there is no layout outside a browser.
AsRender ==
  /\ asBrowser
  /\ asRendered' = ~asRendered
  /\ asDid' = AsDid("render", "none", FALSE, "none")
  /\ UNCHANGED <<asBrowser, asOriginalHeight, asHeight, asMinHeight, asValue,
                 asEnabled, asMinRows, asPrevValue, asPrevMinRows,
                 asInitialHeight, asLineHeight, asViewInit, asDestroyed,
                 asSubscribed, asAuditPending, asFocused, asCallbacks>>

\* The element gains or loses the focus.
AsFocus ==
  /\ asFocused' = ~asFocused
  /\ asDid' = AsDid("focus", "none", FALSE, "none")
  /\ UNCHANGED <<asBrowser, asRendered, asOriginalHeight, asHeight,
                 asMinHeight, asValue, asEnabled, asMinRows, asPrevValue,
                 asPrevMinRows, asInitialHeight, asLineHeight, asViewInit,
                 asDestroyed, asSubscribed, asAuditPending, asCallbacks>>

\* The value of the textarea changes.
AsSetValue ==
  \E value \in TextareaValues :
    /\ value # asValue
    /\ asValue' = value
    /\ asDid' = AsDid("value", "none", FALSE, "none")
    /\ UNCHANGED <<asBrowser, asRendered, asOriginalHeight, asHeight,
                   asMinHeight, asEnabled, asMinRows, asPrevValue,
                   asPrevMinRows, asInitialHeight, asLineHeight, asViewInit,
                   asDestroyed, asSubscribed, asAuditPending, asFocused,
                   asCallbacks>>

\* set minRows(value).
AsSetMinRows ==
  \E value \in NumberInputs :
    /\ asMinRows' = CoerceNumberProperty(value)
    /\ asMinHeight' = SetMinHeight(asMinRows', asLineHeight, asMinHeight)
    /\ asDid' = AsDid("minRows", "none", FALSE, "none")
    /\ UNCHANGED <<asBrowser, asRendered, asOriginalHeight, asHeight, asValue,
                   asEnabled, asPrevValue, asPrevMinRows, asInitialHeight,
                   asLineHeight, asViewInit, asDestroyed, asSubscribed,
                   asAuditPending, asFocused, asCallbacks>>

\* set enabled(value).
AsSetEnabled ==
  \E value \in JsValues :
    LET coerced == CoerceBooleanProperty(value)
    IN /\ asCallbacks < MaxFrames
       /\ asEnabled' = coerced
       /\ IF asEnabled = coerced
            THEN /\ asDid' = AsDid("enabled", "none", FALSE, "none")
                 /\ UNCHANGED <<asLineHeight, asMinHeight, asHeight,
                                asPrevValue, asPrevMinRows, asCallbacks>>
            ELSE IF coerced
              THEN ApplyResize("enabled", TRUE, ResizeToFitContent(TRUE, TRUE))
              ELSE /\ asHeight' = ResetHeight(asHeight, asInitialHeight)
                   /\ asDid' = AsDid("enabled", "none", FALSE, "none")
                   /\ UNCHANGED <<asLineHeight, asMinHeight, asPrevValue,
                                  asPrevMinRows, asCallbacks>>
       /\ UNCHANGED <<asBrowser, asRendered, asOriginalHeight, asValue,
                      asMinRows, asInitialHeight, asViewInit, asDestroyed,
                      asSubscribed, asAuditPending, asFocused>>

\* ngAfterViewInit(); the framework calls it once, on a live directive.
AsNgAfterViewInit ==
  /\ ~asViewInit
  /\ ~asDestroyed
  /\ asViewInit' = TRUE
  /\ IF asBrowser
       THEN /\ asInitialHeight' = asHeight
            /\ ApplyResize("ngAfterViewInit", FALSE,
                           ResizeToFitContent(FALSE, asEnabled))
            /\ asSubscribed' = TRUE
       ELSE /\ asDid' = AsDid("ngAfterViewInit", "none", FALSE, "none")
            /\ UNCHANGED <<asInitialHeight, asSubscribed, asLineHeight,
                           asMinHeight, asHeight, asPrevValue, asPrevMinRows,
                           asCallbacks>>
  /\ UNCHANGED <<asBrowser, asRendered, asOriginalHeight, asValue, asEnabled,
                 asMinRows, asDestroyed, asAuditPending, asFocused>>

\* ngOnDestroy(): _destroyed emits and completes; takeUntil(_destroyed)
\* ends the subscription to the window's resize events, pending audit timer
\* included.
AsNgOnDestroy ==
  /\ ~asDestroyed
  /\ asDestroyed' = TRUE
  /\ asSubscribed' = FALSE
  /\ asAuditPending' = FALSE
  /\ asDid' = AsDid("ngOnDestroy", "none", FALSE, "none")
  /\ UNCHANGED <<asBrowser, asRendered, asOriginalHeight, asHeight,
                 asMinHeight, asValue, asEnabled, asMinRows, asPrevValue,
                 asPrevMinRows, asInitialHeight, asLineHeight, asViewInit,
                 asFocused, asCallbacks>>

\* ngDoCheck(), called by the framework on a live directive.
AsNgDoCheck ==
  /\ ~asDestroyed
  /\ asCallbacks < MaxFrames
  /\ IF asBrowser
       THEN ApplyResize("ngDoCheck", FALSE,
                        ResizeToFitContent(FALSE, asEnabled))
       ELSE /\ asDid' = AsDid("ngDoCheck", "none", FALSE, "none")
            /\ UNCHANGED <<asLineHeight, asMinHeight, asHeight, asPrevValue,
                           asPrevMinRows, asCallbacks>>
  /\ UNCHANGED <<asBrowser, asRendered, asOriginalHeight, asValue, asEnabled,
                 asMinRows, asInitialHeight, asViewInit, asDestroyed,
                 asSubscribed, asAuditPending, asFocused>>

\* A call of the public resizeToFitContent(force).
ResizeToFitContentCall ==
  \E force \in BOOLEAN :
    /\ asCallbacks < MaxFrames
    /\ ApplyResize("resizeToFitContent", force,
                   ResizeToFitContent(force, asEnabled))
    /\ UNCHANGED <<asBrowser, asRendered, asOriginalHeight, asValue,
                   asEnabled, asMinRows, asInitialHeight, asViewInit,
                   asDestroyed, asSubscribed, asAuditPending, asFocused>>

\* A call of the public reset().
ResetCall ==
  /\ asHeight' = ResetHeight(asHeight, asInitialHeight)
  /\ asDid' = AsDid("reset", "none", FALSE, "none")
  /\ UNCHANGED <<asBrowser, asRendered, asOriginalHeight, asMinHeight,
                 asValue, asEnabled, asMinRows, asPrevValue, asPrevMinRows,
                 asInitialHeight, asLineHeight, asViewInit, asDestroyed,
                 asSubscribed, asAuditPending, asFocused, asCallbacks>>

\* The window fires `resize`; auditTime(16) starts its timer on the first
\* event of a burst, if the subscription is alive.
WindowResize ==
  /\ asAuditPending' = (asAuditPending \/ asSubscribed)
  /\ asDid' = AsDid("windowResize", "none", FALSE, "none")
  /\ UNCHANGED <<asBrowser, asRendered, asOriginalHeight, asHeight,
                 asMinHeight, asValue, asEnabled, asMinRows, asPrevValue,
                 asPrevMinRows, asInitialHeight, asLineHeight, asViewInit,
                 asDestroyed, asSubscribed, asFocused, asCallbacks>>

\* The audit timer fires: the subscriber runs resizeToFitContent(true).
AuditTimer ==
  /\ asAuditPending
  /\ asCallbacks < MaxFrames
  /\ asAuditPending' = FALSE
  /\ ApplyResize("auditTimer", TRUE, ResizeToFitContent(TRUE, asEnabled))
  /\ UNCHANGED <<asBrowser, asRendered, asOriginalHeight, asValue, asEnabled,
                 asMinRows, asInitialHeight, asViewInit, asDestroyed,
                 asSubscribed, asFocused>>

\* The animation frame or timeout runs _scrollToCaretPosition(textarea).
ScrollToCaretPosition ==
  /\ asCallbacks > 0
  /\ asCallbacks' = asCallbacks - 1
  /\ asDid' = AsDid("scrollToCaretPosition", "none", FALSE,
                    IF MaySetSelection(asDestroyed, asFocused)
                      THEN "set" ELSE "skipped")
  /\ UNCHANGED <<asBrowser, asRendered, asOriginalHeight, asHeight,
                 asMinHeight, asValue, asEnabled, asMinRows, asPrevValue,
                 asPrevMinRows, asInitialHeight, asLineHeight, asViewInit,
                 asDestroyed, asSubscribed, asAuditPending, asFocused>>

(***************************************************************************)
(* Auto-generated ids: MatCheckbox._uniqueId / id / inputId and            *)
(* MatError.id, each drawn from the module's own nextUniqueId counter.     *)
(***************************************************************************)
\* The variant returns the counter without advancing it.
NoIncrement(counter) == [value |-> counter, counter |-> counter]

\* ++nextUniqueId: the counter advances and the new value is used.
PreIncrement(counter) == [value |-> counter + 1, counter |-> counter + 1]

\* nextUniqueId++: the counter advances and the old value is used.
PostIncrement(counter) == [value |-> counter, counter |-> counter + 1]

\* `mat-checkbox-${n}` and `mat-error-${n}`.
CheckboxIdOf(n) == "mat-checkbox-" \o ToString(n)

ErrorIdOf(n) == "mat-error-" \o ToString(n)

\* What an id binding can set on a checkbox: empty values, and an id that
\* looks like a generated one.
SuppliedCheckboxIds == {"", Null, "mat-checkbox-1"}

SuppliedErrorIds == {"my-error"}

\* `${this.id || this._uniqueId}-input`
InputId(id, uniqueId) ==
  (IF id \in {"", Null, Undefined} THEN uniqueId ELSE id) \o "-input"

IdsInit ==
  /\ idNextCheckbox = 0
  /\ idNextError = 0
  /\ idCheckboxes = <<>>
  /\ idErrors = <<>>

IdsIdle == IdsInit

\* new MatCheckbox(...): the field initialisers of _uniqueId and id.
NewMatCheckbox ==
  /\ Len(idCheckboxes) < MaxInstances
  /\ LET next == PreIncrement(idNextCheckbox)
     IN /\ idNextCheckbox' = next.counter
        /\ idCheckboxes' = Append(idCheckboxes,
                                  [uniqueId |-> CheckboxIdOf(next.value),
                                   id |-> CheckboxIdOf(next.value)])
  /\ UNCHANGED <<idNextError, idErrors>>

\* new MatError(): the field initialiser of id.
NewMatError ==
  /\ Len(idErrors) < MaxInstances
  /\ LET next == PostIncrement(idNextError)
     IN /\ idNextError' = next.counter
        /\ idErrors' = Append(idErrors, [uniqueId |-> ErrorIdOf(next.value),
                                         id |-> ErrorIdOf(next.value)])
  /\ UNCHANGED <<idNextCheckbox, idCheckboxes>>

\* An id binding of a checkbox is set.
SetCheckboxId ==
  \E i \in DOMAIN idCheckboxes, value \in SuppliedCheckboxIds :
    /\ idCheckboxes[i].id # value
    /\ idCheckboxes' = [idCheckboxes EXCEPT ![i].id = value]
    /\ UNCHANGED <<idNextCheckbox, idNextError, idErrors>>

\* An id binding of an error is set.
SetErrorId ==
  \E i \in DOMAIN idErrors, value \in SuppliedErrorIds :
    /\ idErrors[i].id # value
    /\ idErrors' = [idErrors EXCEPT ![i].id = value]
    /\ UNCHANGED <<idNextCheckbox, idNextError, idCheckboxes>>


CheckboxNext ==
  \/ NgAfterViewInit /\ UNCHANGED OtherThanCheckbox
  \/ SetChecked /\ UNCHANGED OtherThanCheckbox
  \/ WriteValue /\ UNCHANGED OtherThanCheckbox
  \/ Toggle /\ UNCHANGED OtherThanCheckbox
  \/ SetDisabled /\ UNCHANGED OtherThanCheckbox
  \/ SetDisabledState /\ UNCHANGED OtherThanCheckbox
  \/ SetIndeterminate /\ UNCHANGED OtherThanCheckbox
  \/ OnInputClick /\ UNCHANGED OtherThanCheckbox
  \/ RunMicrotask /\ UNCHANGED OtherThanCheckbox

InitCheckboxSpec ==
  /\ CheckboxInit
  /\ AutocompleteIdle
  /\ TooltipInit
  /\ PredicateIdle
  /\ DrawerIdle
  /\ ProtractorInit
  /\ FakeEventsIdle
  /\ MigrationIdle
  /\ AutosizeIdle
  /\ IdsIdle

SpecCheckbox == InitCheckboxSpec /\ [][CheckboxNext]_vars

AutocompleteNext ==
  \/ SetAriaOwns /\ UNCHANGED OtherThanAutocomplete
  \/ RenderElement /\ UNCHANGED OtherThanAutocomplete
  \/ AcCall /\ UNCHANGED OtherThanAutocomplete
  \/ AcFocus /\ UNCHANGED OtherThanAutocomplete
  \/ AcGetPanelSelector /\ UNCHANGED OtherThanAutocomplete
  \/ AcLocatorForOptional /\ UNCHANGED OtherThanAutocomplete
  \/ AcHasClass /\ UNCHANGED OtherThanAutocomplete
  \/ AcLocatorForAll /\ UNCHANGED OtherThanAutocomplete
  \/ AcThrowIfEmpty /\ UNCHANGED OtherThanAutocomplete
  \/ AcClickFirst /\ UNCHANGED OtherThanAutocomplete
  \/ AcReturn /\ UNCHANGED OtherThanAutocomplete

InitAutocompleteSpec ==
  /\ CheckboxIdle
  /\ AutocompleteInit
  /\ TooltipInit
  /\ PredicateIdle
  /\ DrawerIdle
  /\ ProtractorInit
  /\ FakeEventsIdle
  /\ MigrationIdle
  /\ AutosizeIdle
  /\ IdsIdle

SpecAutocomplete == InitAutocompleteSpec /\ [][AutocompleteNext]_vars

TooltipNext ==
  \/ UserEnter /\ UNCHANGED OtherThanTooltip
  \/ UserLeave /\ UNCHANGED OtherThanTooltip
  \/ HideAnimationDone /\ UNCHANGED OtherThanTooltip
  \/ StabilizeDone /\ UNCHANGED OtherThanTooltip
  \/ TtCall /\ UNCHANGED OtherThanTooltip
  \/ TtHover /\ UNCHANGED OtherThanTooltip
  \/ TtMouseAway /\ UNCHANGED OtherThanTooltip
  \/ TtForceStabilize /\ UNCHANGED OtherThanTooltip
  \/ TtAwaitStabilize /\ UNCHANGED OtherThanTooltip
  \/ TtOptionalPanel /\ UNCHANGED OtherThanTooltip
  \/ TtPanelText /\ UNCHANGED OtherThanTooltip
  \/ TtReturn /\ UNCHANGED OtherThanTooltip
  \/ TtDone /\ UNCHANGED OtherThanTooltip

InitTooltipSpec ==
  /\ CheckboxIdle
  /\ AutocompleteIdle
  /\ TooltipInit
  /\ PredicateIdle
  /\ DrawerIdle
  /\ ProtractorInit
  /\ FakeEventsIdle
  /\ MigrationIdle
  /\ AutosizeIdle
  /\ IdsIdle

SpecTooltip == InitTooltipSpec /\ [][TooltipNext]_vars

PredicateNext ==
  \/ PdSetInputValue /\ UNCHANGED OtherThanPredicate
  \/ PdWith /\ UNCHANGED OtherThanPredicate
  \/ PdEvaluate /\ UNCHANGED OtherThanPredicate
  \/ PdFinish /\ UNCHANGED OtherThanPredicate

InitPredicateSpec ==
  /\ CheckboxIdle
  /\ AutocompleteIdle
  /\ TooltipInit
  /\ PredicateInit
  /\ DrawerIdle
  /\ ProtractorInit
  /\ FakeEventsIdle
  /\ MigrationIdle
  /\ AutosizeIdle
  /\ IdsIdle

SpecPredicate == InitPredicateSpec /\ [][PredicateNext]_vars

DrawerNext ==
  \/ DrRender /\ UNCHANGED OtherThanDrawer
  \/ GetDrawers /\ UNCHANGED OtherThanDrawer
  \/ GetContent /\ UNCHANGED OtherThanDrawer
  \/ DrDone /\ UNCHANGED OtherThanDrawer

InitDrawerSpec ==
  /\ CheckboxIdle
  /\ AutocompleteIdle
  /\ TooltipInit
  /\ PredicateIdle
  /\ DrawerInit
  /\ ProtractorInit
  /\ FakeEventsIdle
  /\ MigrationIdle
  /\ AutosizeIdle
  /\ IdsIdle

SpecDrawer == InitDrawerSpec /\ [][DrawerNext]_vars

ProtractorNext ==
  \/ PeHasClass /\ UNCHANGED OtherThanProtractor
  \/ PeSelectOptions /\ UNCHANGED OtherThanProtractor
  \/ PeSetInputValue /\ UNCHANGED OtherThanProtractor
  \/ PeKeyDown /\ UNCHANGED OtherThanProtractor
  \/ PeOptionClick /\ UNCHANGED OtherThanProtractor
  \/ PeKeyUp /\ UNCHANGED OtherThanProtractor
  \/ PeSelectReturn /\ UNCHANGED OtherThanProtractor
  \/ PeSendKeys /\ UNCHANGED OtherThanProtractor
  \/ PeClick /\ UNCHANGED OtherThanProtractor
  \/ PeDispatchEvent /\ UNCHANGED OtherThanProtractor
  \/ PeDone /\ UNCHANGED OtherThanProtractor

InitProtractorSpec ==
  /\ CheckboxIdle
  /\ AutocompleteIdle
  /\ TooltipInit
  /\ PredicateIdle
  /\ DrawerIdle
  /\ ProtractorInit
  /\ FakeEventsIdle
  /\ MigrationIdle
  /\ AutosizeIdle
  /\ IdsIdle

SpecProtractor == InitProtractorSpec /\ [][ProtractorNext]_vars

FakeEventsNext ==
  \/ CreateMouseEvent /\ UNCHANGED OtherThanFakeEvents
  \/ CreateKeyboardEvent /\ UNCHANGED OtherThanFakeEvents
  \/ PreventDefault /\ UNCHANGED OtherThanFakeEvents
  \/ DiscardEvent /\ UNCHANGED OtherThanFakeEvents

InitFakeEventsSpec ==
  /\ CheckboxIdle
  /\ AutocompleteIdle
  /\ TooltipInit
  /\ PredicateIdle
  /\ DrawerIdle
  /\ ProtractorInit
  /\ FakeEventsInit
  /\ MigrationIdle
  /\ AutosizeIdle
  /\ IdsIdle

SpecFakeEvents == InitFakeEventsSpec /\ [][FakeEventsNext]_vars

MigrationNext ==
  \/ VisitTemplate /\ UNCHANGED OtherThanMigration
  \/ VisitStylesheet /\ UNCHANGED OtherThanMigration
  \/ VisitStringLiteralLike /\ UNCHANGED OtherThanMigration
  \/ VisitPropertyAccessExpression /\ UNCHANGED OtherThanMigration
  \/ MgNextFile /\ UNCHANGED OtherThanMigration

InitMigrationSpec ==
  /\ CheckboxIdle
  /\ AutocompleteIdle
  /\ TooltipInit
  /\ PredicateIdle
  /\ DrawerIdle
  /\ ProtractorInit
  /\ FakeEventsIdle
  /\ MigrationInit
  /\ AutosizeIdle
  /\ IdsIdle

SpecMigration == InitMigrationSpec /\ [][MigrationNext]_vars

AutosizeNext ==
  \/ AsRender /\ UNCHANGED OtherThanAutosize
  \/ AsFocus /\ UNCHANGED OtherThanAutosize
  \/ AsSetValue /\ UNCHANGED OtherThanAutosize
  \/ AsSetMinRows /\ UNCHANGED OtherThanAutosize
  \/ AsSetEnabled /\ UNCHANGED OtherThanAutosize
  \/ AsNgAfterViewInit /\ UNCHANGED OtherThanAutosize
  \/ AsNgOnDestroy /\ UNCHANGED OtherThanAutosize
  \/ AsNgDoCheck /\ UNCHANGED OtherThanAutosize
  \/ ResizeToFitContentCall /\ UNCHANGED OtherThanAutosize
  \/ ResetCall /\ UNCHANGED OtherThanAutosize
  \/ WindowResize /\ UNCHANGED OtherThanAutosize
  \/ AuditTimer /\ UNCHANGED OtherThanAutosize
  \/ ScrollToCaretPosition /\ UNCHANGED OtherThanAutosize

InitAutosizeSpec ==
  /\ CheckboxIdle
  /\ AutocompleteIdle
  /\ TooltipInit
  /\ PredicateIdle
  /\ DrawerIdle
  /\ ProtractorInit
  /\ FakeEventsIdle
  /\ MigrationIdle
  /\ AutosizeInit
  /\ IdsIdle

SpecAutosize == InitAutosizeSpec /\ [][AutosizeNext]_vars

IdsNext ==
  \/ NewMatCheckbox /\ UNCHANGED OtherThanIds
  \/ NewMatError /\ UNCHANGED OtherThanIds
  \/ SetCheckboxId /\ UNCHANGED OtherThanIds
  \/ SetErrorId /\ UNCHANGED OtherThanIds

InitIdsSpec ==
  /\ CheckboxIdle
  /\ AutocompleteIdle
  /\ TooltipInit
  /\ PredicateIdle
  /\ DrawerIdle
  /\ ProtractorInit
  /\ FakeEventsIdle
  /\ MigrationIdle
  /\ AutosizeIdle
  /\ IdsInit

SpecIds == InitIdsSpec /\ [][IdsNext]_vars

(***************************************************************************)
(* Claims about MatCheckbox, checked under SpecCheckbox.                   *)
(***************************************************************************)

\* C1 as stated: after two consecutive user toggles of an enabled checkbox
\* (clicks whose microtasks have run), checked and indeterminate both equal
\* their values before the first toggle.
C1_ToggleTwiceRestoresAll ==
  (Len(toggles) = 3 /\ ~disabled) => toggles[3] = toggles[1]

\* C1 amended: two consecutive user toggles of an enabled checkbox restore
\* checked; indeterminate is restored when it was false or the click action
\* is 'check' or 'noop', and otherwise ends false.
C1_ToggleTwiceRestoresChecked ==
  (Len(toggles) = 3 /\ ~disabled) =>
    /\ toggles[3].checked = toggles[1].checked
    /\ toggles[3].indeterminate =
         (toggles[1].indeterminate /\ clickAction \in {"check", "noop"})

C1_Witness ==
  /\ Len(toggles) = 3
  /\ ~disabled
  /\ toggles[1].indeterminate
  /\ clickAction = "check-indeterminate"
  /\ toggles[2].checked # toggles[1].checked

\* C2 as stated: from checked = false and indeterminate = false, one toggle
\* makes checked true and the next makes it false, whatever the disabled flag
\* and the click action are.
C2_ToggleFromUncheckedAlways ==
  (Len(toggles) >= 2 /\ toggles[1] = Obs(FALSE, FALSE)) =>
    /\ toggles[2].checked
    /\ (Len(toggles) = 3 => ~toggles[3].checked)

\* C2 amended: the same, for a checkbox that is enabled and whose click
\* action is not 'noop'.
C2_ToggleFromUncheckedEnabled ==
  (/\ Len(toggles) >= 2
   /\ toggles[1] = Obs(FALSE, FALSE)
   /\ ~disabled
   /\ clickAction # "noop") =>
    /\ toggles[2].checked
    /\ (Len(toggles) = 3 => ~toggles[3].checked)

C2_Witness ==
  /\ Len(toggles) = 3
  /\ toggles[1] = Obs(FALSE, FALSE)
  /\ ~disabled
  /\ clickAction = "undefined"
  /\ toggles[2].checked
  /\ ~toggles[3].checked

\* C3: when an enabled checkbox whose indeterminate is true is clicked (with a
\* click action that resets indeterminate), every event the click handler
\* emits is delivered with the checkbox's indeterminate already false.
C3_IndeterminateFalseAtChange ==
  (/\ last.op = "click"
   /\ last.indeterminate
   /\ ~last.disabled
   /\ clickAction \notin {"noop", "check"}) =>
    \A k \in DOMAIN emitted : ~emitted[k].ind

IndeterminateEmits ==
  LET sel == SelectSeq(emitted, LAMBDA e : e.type = "indeterminateChange")
  IN [k \in DOMAIN sel |-> sel[k].value]

\* C4: every step emits on indeterminateChange exactly the change of the
\* indeterminate value it made: the new value once when the value changed,
\* nothing when it did not.
C4_IndeterminateChangeMatchesValue ==
  IndeterminateEmits =
    IF indeterminate # last.indeterminate THEN <<indeterminate>> ELSE <<>>

ChangeEmits ==
  LET sel == SelectSeq(emitted, LAMBDA e : e.type \in {"cva", "change"})
  IN [k \in DOMAIN sel |-> <<sel[k].type, sel[k].value>>]

IsClick == last'.op = "click"

\* C25: a click on a disabled checkbox, or on an enabled one whose click
\* action is 'noop', leaves checked, indeterminate and the transition check
\* state unchanged, emits nothing and schedules no microtask; in the enabled
\* 'noop' case the native input's checked and indeterminate are set to the
\* component's values; every click stops the propagation of its event.
C25_InertClick ==
  [][IsClick =>
       /\ last'.stopped
       /\ (disabled \/ clickAction = "noop") =>
            /\ UNCHANGED <<checked, indeterminate, currentCheckState,
                           microtasks>>
            /\ emitted' = <<>>
            /\ ~disabled => /\ nativeChecked' = checked
                            /\ nativeIndeterminate' = indeterminate]_vars

\* A click with click action 'noop' on an enabled, checked and indeterminate
\* checkbox has put both native properties back.
C25_Witness ==
  /\ last.op = "click"
  /\ last.stopped
  /\ ~last.disabled
  /\ clickAction = "noop"
  /\ last.checked
  /\ last.indeterminate
  /\ checked
  /\ indeterminate
  /\ nativeChecked
  /\ nativeIndeterminate

TraceOps == [k \in DOMAIN acTrace |-> acTrace[k].op]

TraceIndices(op) == {k \in DOMAIN acTrace : acTrace[k].op = op}

IsPrefix(s, t) == Len(s) <= Len(t) /\ s = SubSeq(t, 1, Len(s))

DocIndex(id) == CHOOSE k \in DOMAIN OptionElements : OptionElements[k].id = id

\* C6: a finished selectOption call whose query matched no option has
\* rejected, has clicked nothing, and its error message identifies the
\* filter: no other filter, string or RegExp, produces the same message.
C6_NoMatchRejectsNamingFilter ==
  (/\ acOp = "selectOption"
   /\ acStatus \in {"resolved", "rejected"}
   /\ acFound = <<>>) =>
    /\ acStatus = "rejected"
    /\ TraceIndices("click") = {}
    /\ \A g \in OptionHarnessFilters :
         NotFoundMessage(g) = acError => g = acFilters

\* C7: selectOption does focus, attribute read, query and click in that
\* order; it clicks at most once, only after the focus and the query, and
\* the option clicked is the first in document order of those the query
\* returned; a resolved call has clicked exactly once.
C7_SelectOptionInProgramOrder ==
  acOp = "selectOption" =>
    /\ IsPrefix(TraceOps, <<"focus", "getAttribute", "locator", "click">>)
    /\ Cardinality(TraceIndices("click")) <= 1
    /\ acStatus = "resolved" => Cardinality(TraceIndices("click")) = 1
    /\ \A k \in TraceIndices("click") :
         /\ \E j \in 1..(k - 1) : acTrace[j].op = "focus"
         /\ \E j \in 1..(k - 1) : acTrace[j].op = "locator"
         /\ \E m \in DOMAIN acFound : acFound[m] = acTrace[k].arg
         /\ \A m \in DOMAIN acFound : DocIndex(acTrace[k].arg) <= DocIndex(acFound[m])

C7_Witness ==
  /\ acOp = "selectOption"
  /\ acStatus = "resolved"
  /\ Len(acFound) >= 2
  /\ acFilters.text.kind = "regexp"
  /\ \E k \in DOMAIN acTrace : acTrace[k] = Did("click", "o1")

\* C8: whenever a call of isOpen, getOptions, getOptionGroups (or the
\* getOptions inside selectOption) queries the document root, it has read
\* aria-owns earlier in the same call and queries with the selector of the
\* value it read; when that differs from the selector of the previous call,
\* the previous call's selector is not used.
C8_PanelSelectorReadPerCall ==
  \A k \in TraceIndices("locator") :
    \E j \in 1..(k - 1) :
      /\ acTrace[j].op = "getAttribute"
      /\ acTrace[k].arg = GetPanelSelector(acTrace[j].arg)
      /\ GetPanelSelector(acTrace[j].arg) # acPrevSel => acTrace[k].arg # acPrevSel

C8_Witness ==
  /\ acOp = "getOptionGroups"
  /\ acStatus = "resolved"
  /\ acPrevSel = "#p1"
  /\ \E k \in DOMAIN acTrace : acTrace[k] = Did("locator", "#p2")
  /\ acFound = <<"g2">>

\* C9: with no rendering during the call, isOpen() resolves to true exactly
\* when the host has an aria-owns attribute and the element it names is in
\* the document and carries the visible class; it resolves to false when the
\* host has no aria-owns attribute, whatever else the document contains.
C9_IsOpenIffOwnedPanelVisible ==
  (acOp = "isOpen" /\ acStatus = "resolved" /\ acStable) =>
    acResult = (IF hostOwns = Null THEN FALSE ELSE elemState[hostOwns] = "visible")

\* The aria-owns value the call read, once it has read it.
OwnsRead ==
  LET reads == SelectSeq(acTrace, LAMBDA d : d.op = "getAttribute")
  IN IF reads = <<>> THEN Undefined ELSE reads[Len(reads)].arg

\* The element an option or group lies in.
ParentOf(id) == OptionElements[DocIndex(id)].parent

\* C28: every option a getOptions call (the one inside selectOption
\* included) and every group a getOptionGroups call found lies inside the
\* panel named by the aria-owns attribute the call read, whatever the
\* filters; the query's ancestor is the panel selector, never an 'ancestor'
\* the caller supplied.
C28_FoundInsideOwnedPanel ==
  (acOp \in {"getOptions", "getOptionGroups", "selectOption"}) =>
    /\ \A k \in TraceIndices("locator") :
         acTrace[k].arg = GetPanelSelector(OwnsRead)
    /\ \A m \in DOMAIN acFound :
         /\ OwnsRead \notin {Undefined, Null}
         /\ ParentOf(acFound[m]) = OwnsRead

(***************************************************************************)
(* Claims about MatTooltipHarness, checked under SpecTooltip.              *)
(***************************************************************************)

\* C10: hide() moves the pointer off the host, then calls forceStabilize, in
\* that order and nothing else; when it has resolved, the stabilization it
\* requested has completed and the host's tooltip is no longer hiding.
C10_HideResolvesAfterStabilize ==
  ttOp = "hide" =>
    /\ IsPrefix(ttTrace, <<"mouseAway", "forceStabilize">>)
    /\ ttStatus = "resolved" =>
         /\ ttTrace = <<"mouseAway", "forceStabilize">>
         /\ ~stabilizing
         /\ HostTrigger \notin tipHiding

\* A hide() that found the tooltip shown, with another tooltip still in the
\* document, has resolved.
C10_Witness ==
  /\ ttOp = "hide"
  /\ ttStatus = "resolved"
  /\ ttTrace = <<"mouseAway", "forceStabilize">>
  /\ tipDom = <<"t2">>

HostShownAtQuery == \E k \in DOMAIN ttDomAtQuery : ttDomAtQuery[k] = HostTrigger

\* C11: with several tooltip triggers in the document, a resolved isOpen() is
\* true exactly when the tooltip of the harness's own trigger was in the
\* document when the call queried it, and a resolved getTooltipText() is that
\* tooltip's text, or '' when it was not shown.
C11_OwnTooltipOnly ==
  /\ (ttOp = "isOpen" /\ ttStatus = "resolved") => ttOpen = HostShownAtQuery
  /\ (ttOp = "getTooltipText" /\ ttStatus = "resolved") =>
       ttText = (IF HostShownAtQuery THEN TipMessage(HostTrigger) ELSE "")

(***************************************************************************)
(* Claims about with() and HarnessPredicate, checked under SpecPredicate.  *)
(***************************************************************************)

\* C12: for every harness type, the predicate of with() called with no
\* argument, with {} or with every option field undefined runs no match
\* function, rejects no instance, and once the locator has evaluated it has
\* accepted every instance of the type in the root scope.
C12_NoOptionsAcceptAll ==
  (pdStatus # "idle" /\ (~pdArg.given \/ ~pdArg.hasValue \/ pdArg.value.kind = "undefined")) =>
    /\ pdRan = {}
    /\ \A i \in Instances : pdAccepted[i] # "no"
    /\ pdStatus = "done" => \A i \in Instances : pdAccepted[i] = "yes"

C12_Witness ==
  /\ pdStatus = "done"
  /\ pdType = "MatAutocompleteHarness"
  /\ pdArg = WithArg(TRUE, TRUE, TextFilter("undefined", ""))
  /\ inputValue["i1"] # inputValue["i2"]
  /\ \A i \in Instances : pdAccepted[i] = "yes"

\* The filters that accept the value 'foo': the string 'foo' and the
\* patterns /^f/ and /oo/.
AcceptFoo ==
  { TextFilter("string", "foo"), TextFilter("regexp", "^f"),
    TextFilter("regexp", "oo") }

\* C13: with({value}) of the autocomplete accepts an instance exactly when a
\* string value equals the input's value at the time the predicate is
\* evaluated, or a RegExp value tests true against it; for the value 'foo',
\* 'foo' and /^f/ accept while 'fo' and /^o/ reject.
C13_ValueFilterMatchesCurrentValue ==
  \A i \in Instances :
    (/\ pdType = "MatAutocompleteHarness"
     /\ pdArg.given /\ pdArg.hasValue /\ pdArg.value.kind # "undefined"
     /\ pdAccepted[i] # "none") =>
      LET f == pdArg.value
          cur == pdValAtEval[i]
      IN /\ <<i, "value">> \in pdRan
         /\ (pdAccepted[i] = "yes") =
              (IF f.kind = "string" THEN cur = f.src ELSE RegExpTest(f.src, cur))
         /\ cur = "foo" => ((pdAccepted[i] = "yes") = (f \in AcceptFoo))

\* An instance whose value changed from 'fo' to 'foo' after with('fo') was
\* called has been rejected, and one that kept 'fo' accepted.
C13_Witness ==
  /\ pdType = "MatAutocompleteHarness"
  /\ pdArg = WithArg(TRUE, TRUE, TextFilter("string", "fo"))
  /\ pdValAtWith["i1"] = "fo"
  /\ pdValAtEval["i1"] = "foo"
  /\ pdAccepted["i1"] = "no"
  /\ pdAccepted["i2"] = "yes"

(***************************************************************************)
(* Claims about MatDrawerContainerHarness, checked under SpecDrawer.       *)
(***************************************************************************)
DrawerIndex(id) == CHOOSE k \in DOMAIN DrawerElements : DrawerElements[k].id = id

\* The elements of a kind that are in the document under the host.
UnderHost(kind) ==
  {k \in DOMAIN DrawerElements :
     /\ DrawerElements[k].id \in drPresent
     /\ DrawerElements[k].kind = kind
     /\ DrawerElements[k].container = HostContainer}

\* C14: getDrawers(filter) always resolves, to the matching drawers under the
\* container (an empty array when there is none); getContent() rejects with
\* a not-found error when no content element is under the container and
\* otherwise resolves to the first of them in document order.
C14_GetDrawersEmptyGetContentFirst ==
  /\ (drOp = "getDrawers" /\ drOutcome.status # "idle") =>
       LET want == {k \in UnderHost("drawer") :
                      drFilter = Undefined \/ DrawerElements[k].position = drFilter}
       IN /\ drOutcome.status = "resolved"
          /\ {DrawerIndex(drOutcome.found[j]) : j \in DOMAIN drOutcome.found} = want
          /\ Len(drOutcome.found) = Cardinality(want)
          /\ want = {} => drOutcome.found = <<>>
  /\ (drOp = "getContent" /\ drOutcome.status # "idle") =>
       IF UnderHost("content") = {}
         THEN drOutcome.status = "rejected" /\ drOutcome.error = "NotFoundError"
         ELSE /\ drOutcome.status = "resolved"
              /\ Len(drOutcome.found) = 1
              /\ \A k \in UnderHost("content") : DrawerIndex(drOutcome.found[1]) <= k

\* getContent() on a container with two content elements has resolved to the
\* first, while another container's content is also in the document.
C14_Witness ==
  /\ drOp = "getContent"
  /\ drOutcome.status = "resolved"
  /\ {"k1", "k2", "k3"} \subseteq drPresent
  /\ drOutcome.found = <<"k1">>

(***************************************************************************)
(* Claims about ProtractorElement, checked under SpecProtractor.           *)
(***************************************************************************)

\* s[i..j] is a token of s: free of whitespace, and bounded on each side by
\* whitespace or an end of the string.
IsTokenAt(s, i, j) ==
  /\ i <= j
  /\ \A k \in i..j : ~IsSpace(CharAt(s, k))
  /\ i = 1 \/ IsSpace(CharAt(s, i - 1))
  /\ j = Len(s) \/ IsSpace(CharAt(s, j + 1))

\* C15: hasClass(name) is true exactly when name is a non-empty token of the
\* class attribute, a null attribute counting as the empty string;
\* hasClass('') is false, and so is every hasClass on a null attribute.
C15_HasClassIffToken ==
  (peOp = "hasClass" /\ peStatus = "resolved") =>
    LET s == IF peClass = Null THEN "" ELSE peClass
        name == peArgs[1]
    IN /\ peResult = (\E i, j \in 1..Len(s) : IsTokenAt(s, i, j) /\ SubSeq(s, i, j) = name)
       /\ name = "" => ~peResult
       /\ peClass = Null => ~peResult

\* hasClass('a') on class=" a\t" is true.
C15_Witness ==
  /\ peOp = "hasClass"
  /\ peStatus = "resolved"
  /\ peClass = " a\t"
  /\ peArgs = <<"a">>
  /\ peResult

\* The requested indices that name an existing option.
Wanted == {i \in 0..(peOptions - 1) : \E k \in DOMAIN peArgs : peArgs[k] = i}

\* Control down, click, control up for each wanted index from i on, ascending.
RECURSIVE ControlClicksFrom(_)
ControlClicksFrom(i) ==
  IF i >= peOptions
    THEN <<>>
    ELSE (IF i \in Wanted
            THEN <<Asked("keyDown", "CONTROL"), Asked("click", ToString(i)),
                   Asked("keyUp", "CONTROL")>>
            ELSE <<>>) \o ControlClicksFrom(i + 1)

\* C16: for every argument list, selectOptions clears the current selection
\* and then does control down, click, control up for each distinct requested
\* index that names an option, in ascending order, and nothing else; when it
\* returns the control key is up and exactly the requested options are
\* selected.
C16_ClearThenControlClicks ==
  peOp = "selectOptions" =>
    /\ IsPrefix(peLog, <<Asked("all", "option"), Asked("setInputValue", "")>>
                         \o ControlClicksFrom(0))
    /\ peStatus = "resolved" =>
         /\ ~peCtrl
         /\ SubSeq(peLog, 3, Len(peLog)) = ControlClicksFrom(0)
         /\ peSelected = Wanted

\* The modifiers set in the leading ModifierKeys object, if there is one.
LeadingModifiers ==
  IF peArgs # <<>> /\ peArgs[1].t = "object" THEN peArgs[1].mods ELSE {}

\* The string and TestKey arguments, in order.
KeyArguments == SelectSeq(peArgs, LAMBDA a : a.t # "object")

\* The set modifiers in the order control, alt, shift, meta.
ModifiersInOrder ==
  SelectSeq(<<"control", "alt", "shift", "meta">>, LAMBDA m : m \in LeadingModifiers)

ProtractorKeyOf(m) ==
  CASE m = "control" -> "Key.CONTROL"
    [] m = "alt" -> "Key.ALT"
    [] m = "shift" -> "Key.SHIFT"
    [] OTHER -> "Key.META"

\* The single characters of the strings and the table entries of the
\* TestKeys among the first n key arguments, in argument order.
RECURSIVE KeysOfFirst(_)
KeysOfFirst(n) ==
  IF n = 0
    THEN <<>>
    ELSE KeysOfFirst(n - 1) \o
         (IF KeyArguments[n].t = "string"
            THEN [k \in 1..Len(KeyArguments[n].s) |-> SubSeq(KeyArguments[n].s, k, k)]
            ELSE <<keyMap[KeyArguments[n].s]>>)

TrailingModifiers ==
  IF peArgs # <<>> /\ peArgs[Len(peArgs)].t = "object"
    THEN peArgs[Len(peArgs)].mods
    ELSE {}

TwoNumbersGiven ==
  Len(peArgs) >= 2 /\ peArgs[1].t = "number" /\ peArgs[2].t = "number"

\* C18: for each argument shape of click and rightClick the actions are: one
\* pointer move (at offset {x, y} exactly when two numbers were given), a
\* key down for each set modifier, one click (left button for click, right
\* for rightClick), a key up for each pressed modifier, and nothing else.
C18_ClickSequence ==
  (peOp \in {"click", "rightClick"} /\ peStatus = "resolved") =>
    LET n == Cardinality(TrailingModifiers)
        keys == {ProtractorKeyOf(m) : m \in TrailingModifiers}
    IN /\ Len(peLog) = 2 * n + 2
       /\ peLog[1].op = "mouseMove"
       /\ peLog[1].offset =
            (IF TwoNumbersGiven
               THEN <<[x |-> peArgs[1].n, y |-> peArgs[2].n]>>
               ELSE <<>>)
       /\ \A k \in 2..(n + 1) : peLog[k].op = "keyDown"
       /\ {peLog[k].arg : k \in 2..(n + 1)} = keys
       /\ peLog[n + 2].op = "click"
       /\ peLog[n + 2].arg = (IF peOp = "click" THEN "Button.LEFT" ELSE "Button.RIGHT")
       /\ \A k \in (n + 3)..(2 * n + 2) : peLog[k].op = "keyUp"
       /\ {peLog[k].arg : k \in (n + 3)..(2 * n + 2)} = keys

\* rightClick(3, 0, {control: true, shift: true}) has resolved.
C18_Witness ==
  /\ peOp = "rightClick"
  /\ peStatus = "resolved"
  /\ Len(peArgs) = 3
  /\ peArgs[1].n = 3
  /\ peArgs[3].mods = {"control", "shift"}
  /\ Len(peLog) = 6

\* C19: a finished dispatchEvent(name, data) has resolved and has fired
\* exactly one event, of type name, on which every property of data is an
\* own property with the value data gives it; with data omitted the event
\* has no extra property.
C19_DataReadableOnEvent ==
  (peOp = "dispatchEvent" /\ peStatus \in {"resolved", "rejected"}) =>
    /\ peStatus = "resolved"
    /\ Len(peLog) = 1
    /\ peLog[1].type = peArgs[1].name
    /\ \A p \in DOMAIN peArgs[1].data :
         p \in DOMAIN peLog[1].own /\ peLog[1].own[p] = peArgs[1].data[p]
    /\ ~peArgs[1].given => DOMAIN peLog[1].own = {}

(***************************************************************************)
(* Claims about the fake events, checked under SpecFakeEvents.             *)
(***************************************************************************)

\* C20: once preventDefault() has been called on an event built by
\* createMouseEvent or createKeyboardEvent, defaultPrevented reads true, also
\* after repeated calls, and every call has invoked the original
\* preventDefault; every event built by createMouseEvent reads buttons = 1.
C20_DefaultPreventedSticksButtonsOne ==
  evKind # "none" =>
    /\ evCalls > 0 => ReadProperty("defaultPrevented") = TRUE
    /\ evOriginalCalls = evCalls
    /\ evKind = "mouse" => ReadProperty("buttons") = 1

\* A right-button mouse event with modifiers, built on IE, on which
\* preventDefault() was called twice.
C20_Witness ==
  /\ evKind = "mouse"
  /\ evBackend = "ie"
  /\ evCalls = 2
  /\ evNative.button = 2
  /\ evNative.ctrlKey
  /\ ~evNative.defaultPrevented
  /\ ReadProperty("defaultPrevented") = TRUE

\* Two edits delete ranges that intersect or start at the same offset.
Overlap(e, f) ==
  \/ e.start = f.start
  \/ (e.start < f.start + f.length /\ f.start < e.start + e.length)

\* C21: the edits recorded for one file by one visit of
\* ElementSelectorsMigration or PropertyNamesMigration are pairwise
\* non-overlapping.
C21_EditsNonOverlapping ==
  \A i, j \in DOMAIN mgEdits : i < j => ~Overlap(mgEdits[i], mgEdits[j])

(***************************************************************************)
(* Claims about CdkTextareaAutosize, checked under SpecAutosize.           *)
(***************************************************************************)

\* The step called resizeToFitContent.
ResizeCalled == asDid'.resize # "none"

\* The value or minRows differs from the ones recorded at the last resize.
ChangedSinceResize == asMinRows # asPrevMinRows \/ asValue # asPrevValue

\* C22: a call of resizeToFitContent(force) recomputes the height only when
\* autosizing is enabled, the line height is known and, without force, the
\* value or minRows differs from the recorded ones; a call without force
\* and with both unchanged leaves the height and the recorded value and
\* minRows alone; a forced call of an enabled directive with a known line
\* height recomputes; the recorded value and minRows change exactly in a
\* call that recomputes, to the value and minRows of that call.
C22_ResizeOnlyWhenNeeded ==
  [][ResizeCalled =>
        LET force == asDid'.resize = "forced"
            ready == asEnabled' /\ asLineHeight' # 0
        IN /\ asDid'.recomputed => ready /\ (force \/ ChangedSinceResize)
           /\ (~force /\ ~ChangedSinceResize) =>
                UNCHANGED <<asHeight, asPrevValue, asPrevMinRows>>
           /\ (force /\ ready) => asDid'.recomputed
           /\ IF asDid'.recomputed
                THEN /\ asPrevValue' = asValue
                     /\ asPrevMinRows' = asMinRows
                     /\ asHeight' = Px(ScrollHeight(asValue, asMinRows,
                                                    asLineHeight') - 4)
                ELSE UNCHANGED <<asHeight, asPrevValue, asPrevMinRows>>]_vars

\* A call without force found the value and minRows of the last resize and
\* returned early.
C22_Witness ==
  /\ asDid.resize = "default"
  /\ ~asDid.recomputed
  /\ asEnabled
  /\ asLineHeight # 0
  /\ asPrevValue = asValue
  /\ asPrevMinRows = asMinRows

\* The height reset() restores: the one recorded in ngAfterViewInit, or the
\* untouched height of the element when none was recorded.
RecordedOriginalHeight ==
  IF asInitialHeight # Undefined THEN asInitialHeight ELSE asOriginalHeight

C26_NothingAfterDestroy ==
  [][/\ asDid'.selection = "set" => ~asDestroyed /\ asFocused
     /\ (asDestroyed /\ asDid'.op \in {"windowResize", "auditTimer"}) =>
          /\ asDid'.resize = "none"
          /\ ~asAuditPending'
          /\ UNCHANGED asHeight]_vars

\* A callback scheduled before ngOnDestroy ran after it, on the focused
\* textarea, and set no selection.
C26_Witness ==
  /\ asDid.op = "scrollToCaretPosition"
  /\ asDid.selection = "skipped"
  /\ asDestroyed
  /\ asFocused

(***************************************************************************)
(* Claims about auto-generated ids, checked under SpecIds.                 *)
(***************************************************************************)

\* The N of a generated id `${prefix}${N}`, found by formatting every
\* candidate; -1 for an id of another form.
NumberOfId(id, prefix) ==
  CHOOSE n \in -1..(MaxInstances + 2) :
    \/ (n >= 0 /\ id = prefix \o ToString(n))
    \/ (n = -1 /\ \A m \in 0..(MaxInstances + 2) : id # prefix \o ToString(m))

\* The generated ids are pairwise distinct and their N strictly increases
\* in creation order.
StrictlyIncreasing(instances, prefix) ==
  \A i, j \in DOMAIN instances :
    i < j =>
      /\ instances[i].uniqueId # instances[j].uniqueId
      /\ NumberOfId(instances[i].uniqueId, prefix) >= 0
      /\ NumberOfId(instances[i].uniqueId, prefix)
           < NumberOfId(instances[j].uniqueId, prefix)

\* No id was supplied: the id is the generated one or an empty value.
WithoutSuppliedId(c) == c.id \in {c.uniqueId, "", Null, Undefined}

\* C24: the generated ids of the checkboxes, and those of the errors, are
\* pairwise distinct with N strictly increasing in creation order; the
\* inputId of a checkbox is its id followed by "-input", with the generated
\* id in place of an empty id; two checkboxes without a supplied id never
\* share an inputId.
C24_GeneratedIdsUnique ==
  /\ StrictlyIncreasing(idCheckboxes, "mat-checkbox-")
  /\ StrictlyIncreasing(idErrors, "mat-error-")
  /\ \A i \in DOMAIN idCheckboxes :
       LET c == idCheckboxes[i]
       IN InputId(c.id, c.uniqueId) =
            IF c.id \in {"", Null}
              THEN c.uniqueId \o "-input" ELSE c.id \o "-input"
  /\ \A i, j \in DOMAIN idCheckboxes :
       (i # j /\ WithoutSuppliedId(idCheckboxes[i])
              /\ WithoutSuppliedId(idCheckboxes[j])) =>
         InputId(idCheckboxes[i].id, idCheckboxes[i].uniqueId)
           # InputId(idCheckboxes[j].id, idCheckboxes[j].uniqueId)

\* Three checkboxes, the first with its id set to the empty string, and two
\* errors exist.
C24_Witness ==
  /\ Len(idCheckboxes) = 3
  /\ idCheckboxes[1].id = ""
  /\ idCheckboxes[2].id = idCheckboxes[2].uniqueId
  /\ Len(idErrors) = 2

====
